---- MODULE Spec2Model ----
(***************************************************************************)
(* Calendar synchronisation of fluid-calendar: the CalDAV and WebCal sync  *)
(* services (delete-then-insert reconciliation, recurrence expansion) and  *)
(* the CalDAV mutation gateway (createEvent / updateEvent / deleteEvent).  *)
(*                                                                         *)
(* Every awaited call of the services is one step of a process, so that    *)
(* two requests can interleave exactly where the code can be suspended.    *)
(* Dates are abstracted to day numbers, an identifier "a_b" to the         *)
(* sequence <<"a","b">> of its underscore-separated segments.              *)
(***************************************************************************)
EXTENDS Integers, Sequences, FiniteSets, TLC

VARIABLES
    feeds,      \* CalendarFeed rows: feed id -> [lastSync, error, syncToken]
    rows,       \* CalendarEvent rows (a set of records, keyed by id)
    nextId,     \* next storage id handed out by calendarEvent.create
    clock,      \* newDate(): advances with every request that starts
    server,     \* the CalDAV collection of feed f1: resource name -> object
    procs,      \* the requests in flight: their position and locals
    opsStarted, \* number of requests started so far
    hist,       \* per feed, what the last returned syncCalendar run left
    store,      \* the browser's calendar store: feeds, events, error
    api,        \* what the backend serves to the store: feeds and events
    call,       \* the store call in flight: its position and locals
    route,      \* the request the WebCal add route is serving
    mw          \* the request the middleware saw last, and its response

calVars == <<feeds, rows, nextId, clock, server, procs, opsStarted, hist>>
uiVars == <<store, api, call, route, mw>>
vars == <<feeds, rows, nextId, clock, server, procs, opsStarted, hist,
          store, api, call, route, mw>>

----------------------------------------------------------------------------
(* Bounds and fixed universe *)

MaxOps == 2

Feeds == {"f1", "w1"}
Procs == {"p1", "p2"}
Names == {"u1", "u2", "u3"}
NameOrder == <<"u1", "u2", "u3">>

FeedType(f) == IF f = "f1" THEN "CALDAV" ELSE "WEBCAL"

WindowStart == 1
WindowEnd == 5

\* the value of a date property that is absent
NoDate == 0 - 1

----------------------------------------------------------------------------
(* Remote calendar objects *)

NoRes == [kind |-> "none", uid |-> <<>>, title |-> "", start |-> 0,
          end |-> 0, rule |-> "", exdates |-> {}, recurid |-> 0]

BadRes == [NoRes EXCEPT !.kind = "bad"]

VEvent(uid, title, start, rule) ==
    [kind |-> "vevent", uid |-> uid, title |-> title, start |-> start,
     end |-> start + 1, rule |-> rule, exdates |-> {}, recurid |-> 0]

InitServers ==
    { [n \in Names |->
          CASE n = "u1" -> a
            [] n = "u2" -> b
            [] OTHER    -> c] :
        a \in {VEvent(<<"u1">>, "v0", 1, "R2"), VEvent(<<"u1">>, "v0", 1, "")},
        b \in {VEvent(<<"u2">>, "v0", 2, ""), BadRes},
        c \in {NoRes, VEvent(<<"u3">>, "v0", 3, "")} }

\* `${path}/${externalEventId}.ics`: the resource an external id addresses
ResName(ext) == IF Len(ext) = 1 /\ ext[1] \in Names THEN ext[1] ELSE "other"

ResAt(srv, name) == IF name \in Names THEN srv[name] ELSE NoRes

----------------------------------------------------------------------------
(* Normalisation of a VEVENT *)

DateStr(d) == "d" \o ToString(d)

convertVEventToCalendarEvent(v) ==
    LET isRec  == v.rule # ""
        isInst == v.recurid # 0
    IN [ext |-> v.uid, title |-> v.title, start |-> v.start, end |-> v.end,
        isRecurring |-> isRec /\ ~isInst,
        rule |-> v.rule,
        isMaster |-> isRec /\ ~isInst,
        masterUid |-> IF isInst THEN Head(v.uid) ELSE "",
        recurringEventId |-> IF isInst THEN v.uid ELSE <<>>]

\* variant: the RRULE test comes first and ignores RECURRENCE-ID
setEventTypePropertiesRuleFirst(event, uid, hasRRule, hasRecurrenceId) ==
    IF hasRRule
    THEN [event EXCEPT !.isMaster = TRUE, !.isRecurring = TRUE,
                       !.masterUid = "", !.ext = uid]
    ELSE IF hasRecurrenceId
    THEN [event EXCEPT !.isMaster = FALSE, !.isRecurring = FALSE,
                       !.masterUid = Head(uid),
                       !.ext = <<Head(uid), DateStr(event.start)>>]
    ELSE [event EXCEPT !.isMaster = FALSE, !.isRecurring = FALSE,
                       !.masterUid = "", !.ext = uid]

setEventTypeProperties(event, uid, hasRRule, hasRecurrenceId) ==
    IF hasRRule /\ ~hasRecurrenceId
    THEN [event EXCEPT !.isMaster = TRUE, !.isRecurring = TRUE,
                       !.masterUid = "", !.ext = uid]
    ELSE IF hasRecurrenceId
    THEN [event EXCEPT !.isMaster = FALSE, !.isRecurring = FALSE,
                       !.masterUid = Head(uid),
                       !.ext = <<Head(uid), DateStr(event.start)>>]
    ELSE [event EXCEPT !.isMaster = FALSE, !.isRecurring = FALSE,
                       !.masterUid = "", !.ext = uid]

\* one calendar object: its events, or none when it fails to parse or its
\* VEVENT has no DTSTART (the conversion throws into the same catch)
ObjectEvents(obj) ==
    IF obj.kind = "vevent" /\ obj.start # NoDate
    THEN << setEventTypeProperties(convertVEventToCalendarEvent(obj),
                                   obj.uid, obj.rule # "", obj.recurid # 0) >>
    ELSE << >>

RECURSIVE processFrom(_, _)
processFrom(srv, i) ==
    IF i > Len(NameOrder) THEN << >>
    ELSE ObjectEvents(srv[NameOrder[i]]) \o processFrom(srv, i + 1)

\* variant: one try/catch around the whole loop, so that an object that
\* fails to parse loses the batch
processCalendarObjectsAborting(srv) ==
    IF \E n \in Names : srv[n].kind = "bad" THEN << >> ELSE processFrom(srv, 1)

processCalendarObjects(srv) == processFrom(srv, 1)

----------------------------------------------------------------------------
(* Normalisation of a WebCal text (webcal-helpers, WebCalCalendarService) *)

\* convertWebCalEvent: a VEVENT without DTSTART throws inside the try and the
\* catch returns a minimal event dated now
convertWebCalEvent(v, now) ==
    IF v.start = NoDate
    THEN [ext |-> << >>, title |-> "Error parsing event", start |-> now,
          end |-> now, isRecurring |-> FALSE, rule |-> "",
          isMaster |-> FALSE, masterUid |-> "", recurringEventId |-> << >>]
    ELSE LET isRec  == v.rule # ""
             isInst == v.recurid # 0
         IN [ext |-> v.uid, title |-> v.title, start |-> v.start,
             end |-> v.end,
             isRecurring |-> isRec /\ ~isInst,
             rule |-> IF isRec THEN v.rule ELSE "",
             isMaster |-> isRec /\ ~isInst,
             masterUid |-> IF isInst THEN Head(v.uid) ELSE "",
             recurringEventId |-> IF isInst THEN v.uid ELSE << >>]

\* the VEVENTs of the text served at a WebCal url
RECURSIVE veventsFrom(_, _)
veventsFrom(srv, i) ==
    IF i > Len(NameOrder) THEN << >>
    ELSE (IF srv[NameOrder[i]].kind = "none" THEN << >>
          ELSE << srv[NameOrder[i]] >>) \o veventsFrom(srv, i + 1)

\* processWebcalData: one try/catch around parse and loop
processWebcalData(srv, now) ==
    IF \E n \in Names : srv[n].kind = "bad" THEN << >>
    ELSE LET vevents == veventsFrom(srv, 1)
         IN [k \in 1..Len(vevents) |->
                setEventTypeProperties(
                    convertWebCalEvent(vevents[k], now), vevents[k].uid,
                    vevents[k].rule # "", vevents[k].recurid # 0)]

----------------------------------------------------------------------------
(* Recurrence expansion *)

\* the rules of the model: "R2" is FREQ=DAILY;COUNT=2, "R5" is
\* FREQ=DAILY;COUNT=5, "BAD" a text RRule.parseString rejects
RuleParses(rule) == rule \in {"R2", "R5"}

RuleCount(rule) == CASE rule = "R2" -> 2 [] rule = "R5" -> 5 [] OTHER -> 0

RECURSIVE occurrencesFrom(_, _, _)
occurrencesFrom(d, left, hi) ==
    IF left = 0 \/ d > hi THEN << >>
    ELSE << d >> \o occurrencesFrom(d + 1, left - 1, hi)

\* variant: rule.between(timeRange.start, timeRange.end) without inc = true
BetweenExclusive(start, rule) ==
    SelectSeq(occurrencesFrom(start, RuleCount(rule), WindowEnd - 1),
              LAMBDA d : d > WindowStart)

\* rule.between(timeRange.start, timeRange.end, true) with dtstart = start
Between(start, rule) ==
    SelectSeq(occurrencesFrom(start, RuleCount(rule), WindowEnd),
              LAMBDA d : d >= WindowStart)

expandMasterEvent(m) ==
    IF ~m.isRecurring \/ m.rule = "" THEN << >>
    ELSE IF ~RuleParses(m.rule) THEN << >>
    ELSE LET occ == Between(m.start, m.rule)
         IN [k \in 1..Len(occ) |->
                [m EXCEPT !.start = occ[k],
                          !.end = occ[k] + (m.end - m.start),
                          !.isRecurring = TRUE,
                          !.isMaster = FALSE, !.recurringEventId = m.ext]]

RECURSIVE expandRecurringEvents(_)
expandRecurringEvents(events) ==
    IF events = << >> THEN << >>
    ELSE (IF Head(events).isRecurring THEN expandMasterEvent(Head(events))
          ELSE << >>) \o expandRecurringEvents(Tail(events))

\* variant: expandMasterEvent has no catch of its own, so a rule that fails
\* to parse reaches the catch of getEvents
getEventsExpansionFatal(fetchOk, srv) ==
    IF ~fetchOk THEN << >>
    ELSE LET masterEvents == processCalendarObjects(srv)
         IN IF \E k \in DOMAIN masterEvents :
                  /\ masterEvents[k].isRecurring
                  /\ masterEvents[k].rule # ""
                  /\ ~RuleParses(masterEvents[k].rule)
            THEN << >>
            ELSE masterEvents \o expandRecurringEvents(masterEvents)

\* the events one fetch yields; a failed fetch is caught and yields none
getEvents(fetchOk, srv) ==
    IF ~fetchOk THEN << >>
    ELSE LET masterEvents == processCalendarObjects(srv)
         IN masterEvents \o expandRecurringEvents(masterEvents)

----------------------------------------------------------------------------
(* Storage rows and the locals of a request *)

NoRow == [id |-> 0, feedId |-> "", ext |-> <<>>, title |-> "", start |-> 0,
          end |-> 0, isRecurring |-> FALSE, rule |-> "", isMaster |-> FALSE,
          masterEventId |-> 0, recurringEventId |-> <<>>]

NoInput == [id |-> "", title |-> "", start |-> 0, end |-> 0,
            isRecurring |-> FALSE,
            rule |-> ""]

EmptyServer == [n \in Names |-> NoRes]

NoHist == [valid |-> FALSE, fetchOk |-> FALSE, srv |-> EmptyServer, n |-> 0,
           exts |-> {}]

Idle == [op |-> "idle", pc |-> "idle", feed |-> "", valid |-> TRUE,
         mode |-> "", ext |-> <<>>, ev |-> NoRow, inp |-> NoInput,
         reqs |-> <<>>, snap |-> EmptyServer, master |-> NoRow,
         obj |-> NoRes,
         events |-> <<>>, i |-> 0, added |-> <<>>, startId |-> 0,
         prevLastSync |-> 0, overlap |-> FALSE, fetchOk |-> FALSE,
         fetchSrv |-> EmptyServer, prev |-> NoHist, syncDone |-> FALSE,
         rows0 |-> {}, feeds0 |-> << >>, ret |-> NoRow]

SyncPcs == {"find", "delete", "fetch", "create", "update"}

FeedRows(rs, f) == {r \in rs : r.feedId = f}

\* variant: createInstanceEvents is called before createMasterEvents
QueueInstancesFirst(events) ==
    SelectSeq(events, LAMBDA e : ~e.isMaster)
        \o SelectSeq(events, LAMBDA e : e.isMaster)

\* createAllEvents: masters are persisted first, then everything else
Queue(events) ==
    SelectSeq(events, LAMBDA e : e.isMaster)
        \o SelectSeq(events, LAMBDA e : ~e.isMaster)

\* masterEventMap.get(recurringEventId): the last created master with that id
MasterIdFor(added, rid) ==
    LET ks == {k \in 1..Len(added) : added[k].isMaster /\ added[k].ext = rid}
    IN IF rid = <<>> \/ ks = {} THEN 0
       ELSE added[CHOOSE k \in ks : \A j \in ks : j <= k].id

\* the row createMasterEvents / createInstanceEvents hands to create()
EventRow(e, f, id, added) ==
    IF e.isMaster
    THEN [id |-> id, feedId |-> f, ext |-> e.ext, title |-> e.title,
          start |-> e.start, end |-> e.end,
          isRecurring |-> e.isRecurring, rule |-> e.rule,
          isMaster |-> TRUE, masterEventId |-> 0, recurringEventId |-> <<>>]
    ELSE [id |-> id, feedId |-> f, ext |-> e.ext, title |-> e.title,
          start |-> e.start, end |-> e.end,
          isRecurring |-> e.isRecurring, rule |-> e.rule,
          isMaster |-> FALSE,
          masterEventId |-> MasterIdFor(added, e.recurringEventId),
          recurringEventId |-> e.recurringEventId]

\* variant: an instance that names a master found no row for is not created
CreateAcceptedLinkedOnly(row, rs) ==
    /\ row.recurringEventId # << >> => row.masterEventId # 0
    /\ row.masterEventId = 0 \/ \E m \in rs : m.id = row.masterEventId

\* the relation masterEventId -> id: create() rejects a dangling reference
CreateAccepted(row, rs) ==
    row.masterEventId = 0 \/ \E m \in rs : m.id = row.masterEventId

\* variant: the run inserts without deleting first
DeleteFeedRowsSkipped(rs, f) == rs

\* variant: deleteMany({feedId, isMaster: false})
DeleteFeedRowsKeepMasters(rs, f) == {r \in rs : r.feedId # f \/ r.isMaster}

\* variant: deleteMany({}) without the feedId filter
DeleteFeedRowsOfAll(rs, f) == {}

\* deleteMany({feedId}); instances follow their master (onDelete: Cascade)
DeleteFeedRows(rs, f) ==
    LET gone == FeedRows(rs, f)
    IN {r \in rs \ gone :
          r.masterEventId = 0 \/ \A g \in gone : g.id # r.masterEventId}

----------------------------------------------------------------------------
(* syncCalendar *)

InSync(q) == procs[q].pc \in SyncPcs

\* variant: a per-feed lock, a run waits while another works on the feed
SyncMayStartLocked(p, f) ==
    \A q \in Procs \ {p} : ~(InSync(q) /\ procs[q].feed = f)

\* syncCalendar takes no lock: a run may start whatever else is running
SyncMayStart(p, f) == TRUE

\* the call of syncCalendar(id, url, userId) by request p
EnterSync(base, p, f, valid) ==
    LET others == {q \in Procs \ {p} : InSync(q) /\ procs[q].feed = f}
    IN [q \in Procs |->
          IF q = p
          THEN [base EXCEPT !.pc = "find", !.feed = f, !.valid = valid,
                            !.events = <<>>, !.i = 0, !.added = <<>>,
                            !.startId = nextId,
                            !.prevLastSync = feeds[f].lastSync,
                            !.overlap = (others # {}),
                            !.fetchOk = FALSE, !.prev = hist[f]]
          ELSE IF q \in others THEN [procs[q] EXCEPT !.overlap = TRUE]
          ELSE procs[q]]

StartSync(p, f, valid) ==
    /\ procs[p].pc = "idle"
    /\ opsStarted < MaxOps
    /\ SyncMayStart(p, f)
    /\ procs' = EnterSync([Idle EXCEPT !.op = "sync", !.rows0 = rows,
                                       !.feeds0 = feeds], p, f, valid)
    /\ opsStarted' = opsStarted + 1
    /\ clock' = clock + 1
    /\ UNCHANGED <<feeds, rows, nextId, server, hist>>

\* variant: the result of findFirst is used without the null check
AfterFindUnchecked(me) == "delete"

\* if (!feed) throw new Error("Calendar feed not found ...")
AfterFind(me) == IF me.valid THEN "delete" ELSE "threw"

\* calendarFeed.findFirst({id, url, type, userId}); throws when absent
SyncFind(p) ==
    /\ procs[p].pc = "find"
    /\ procs' = [procs EXCEPT ![p].pc = AfterFind(procs[p])]
    /\ UNCHANGED <<feeds, rows, nextId, clock, server, opsStarted, hist>>

\* calendarEvent.deleteMany({feedId})
SyncDelete(p) ==
    /\ procs[p].pc = "delete"
    /\ rows' = DeleteFeedRows(rows, procs[p].feed)
    /\ procs' = [procs EXCEPT ![p].pc = "fetch"]
    /\ UNCHANGED <<feeds, nextId, clock, server, opsStarted, hist>>

\* the answers the remote side can give to the fetch of a feed: the WebCal
\* client object has no fetchWebCalInfo, so that call always throws
FetchAnswers(f) == IF FeedType(f) = "CALDAV" THEN {TRUE, FALSE} ELSE {FALSE}

\* getEvents: fetch, parse, normalise, expand
SyncFetch(p) ==
    /\ procs[p].pc = "fetch"
    /\ \E ok \in FetchAnswers(procs[p].feed) :
          LET evs == getEvents(ok, server)
          IN procs' = [procs EXCEPT
                 ![p].fetchOk = ok, ![p].fetchSrv = server,
                 ![p].events = evs, ![p].i = 1,
                 ![p].pc = IF evs = <<>> THEN "update" ELSE "create"]
    /\ UNCHANGED <<feeds, rows, nextId, clock, server, opsStarted, hist>>

\* one calendarEvent.create of createMasterEvents / createInstanceEvents;
\* a create that throws is logged and the loop goes on
SyncCreate(p) ==
    /\ procs[p].pc = "create"
    /\ LET me  == procs[p]
           q   == Queue(me.events)
           row == EventRow(q[me.i], me.feed, nextId, me.added)
           ok  == CreateAccepted(row, rows)
           nxt == IF me.i = Len(q) THEN "update" ELSE "create"
       IN /\ rows' = IF ok THEN rows \cup {row} ELSE rows
          /\ nextId' = IF ok THEN nextId + 1 ELSE nextId
          /\ procs' = [procs EXCEPT
                 ![p].added = IF ok THEN Append(me.added, row) ELSE me.added,
                 ![p].i = me.i + 1, ![p].pc = nxt]
    /\ UNCHANGED <<feeds, clock, server, opsStarted, hist>>

\* what the caller of syncCalendar does with the result: createEvent and
\* updateEvent look the written event up in syncResult.added
AfterSync(me) ==
    LET wanted == IF me.op = "create" THEN << me.inp.id >> ELSE me.ext
    IN IF me.op \in {"create", "update"}
          /\ \A k \in 1..Len(me.added) : me.added[k].ext # wanted
       THEN "threw" ELSE "returned"

\* variant: the last matching row of the list is returned
FoundLast(me) ==
    LET wanted == IF me.op = "create" THEN << me.inp.id >> ELSE me.ext
        ks == {k \in 1..Len(me.added) : me.added[k].ext = wanted}
    IN IF me.op \notin {"create", "update"} \/ ks = {} THEN NoRow
       ELSE me.added[CHOOSE k \in ks : \A j \in ks : j <= k]

\* syncResult.added.find((e) => e.externalEventId === eventId): the row
\* createEvent and updateEvent return
Found(me) ==
    LET wanted == IF me.op = "create" THEN << me.inp.id >> ELSE me.ext
        ks == {k \in 1..Len(me.added) : me.added[k].ext = wanted}
    IN IF me.op \notin {"create", "update"} \/ ks = {} THEN NoRow
       ELSE me.added[CHOOSE k \in ks : \A j \in ks : k <= j]

\* calendarFeed.update({lastSync: newDate(), syncToken}); return result
SyncUpdate(p) ==
    /\ procs[p].pc = "update"
    /\ LET me == procs[p]
       IN /\ feeds' = [feeds EXCEPT ![me.feed].lastSync = clock]
          /\ hist' = [hist EXCEPT ![me.feed] =
                 [valid |-> ~me.overlap, fetchOk |-> me.fetchOk,
                  srv |-> me.fetchSrv,
                  n |-> Cardinality(FeedRows(rows, me.feed)),
                  exts |-> {r.ext : r \in FeedRows(rows, me.feed)}]]
          /\ procs' = [procs EXCEPT ![p].pc = AfterSync(me),
                                    ![p].ret = Found(me),
                                    ![p].syncDone = TRUE]
    /\ UNCHANGED <<rows, nextId, clock, server, opsStarted>>

\* the request is over: its result or its error went to the caller
Finish(p) ==
    /\ procs[p].pc \in {"returned", "threw"}
    /\ procs' = [procs EXCEPT ![p] = Idle]
    /\ UNCHANGED <<feeds, rows, nextId, clock, server, opsStarted, hist>>

----------------------------------------------------------------------------
(* The mutation gateway: createEvent, updateEvent, deleteEvent *)

Modes == {"single", "series"}
MutationOps == {"create", "update", "delete"}

\* convertToICalendar({...event, id})
convertToICalendar(inp, uid) ==
    [VEvent(uid, inp.title, inp.start,
            IF inp.isRecurring /\ inp.rule # "" THEN inp.rule ELSE "")
        EXCEPT !.end = inp.end]

\* the answers a request can get: 2xx only when the server can carry it out,
\* a non-2xx status, or no answer at all (fetch rejects)
Answers(can) == IF can THEN {"ok", "fail", "none"} ELSE {"fail", "none"}

\* the resource the direct PUT / DELETE of a request addresses
TargetName(me) == IF me.op = "create" THEN me.inp.id ELSE ResName(me.ext)

TargetUid(me) == IF me.op = "create" THEN << me.inp.id >> ELSE me.ext

\* whether the server can carry the write out: If-None-Match: * needs the
\* resource absent, DELETE needs it present
CanWrite(me, srv) ==
    LET name == TargetName(me)
    IN CASE me.op = "create" -> ResAt(srv, name).kind = "none"
         [] me.op = "update" -> name \in Names
         [] OTHER            -> ResAt(srv, name).kind # "none"

\* the collection after the accepted write
Written(me, srv) ==
    LET name == TargetName(me)
    IN IF me.op = "delete" THEN [srv EXCEPT ![name] = NoRes]
       ELSE [srv EXCEPT ![name] = convertToICalendar(me.inp, TargetUid(me))]

DirectMethod(op) == IF op = "delete" THEN "DELETE" ELSE "PUT"

FallbackMethod(op) ==
    CASE op = "create" -> "createObject"
      [] op = "update" -> "updateObject"
      [] OTHER         -> "deleteObject"

\* the step after the remote write was accepted
AfterWrite(me) ==
    CASE me.op = "create" -> "findFeed"
      [] me.op = "update" ->
            IF me.mode = "single" /\ me.inp.isRecurring
            THEN "findMaster" ELSE "sync"
      [] OTHER ->
            IF me.mode = "single" /\ me.ev.isRecurring
               /\ me.ev.masterEventId # 0
            THEN "findMaster" ELSE "sync"

\* request p goes on at `target`; "sync" is the call of syncCalendar
Goto(p, me, target) ==
    IF target = "sync" THEN EnterSync(me, p, me.ev.feedId, TRUE)
    ELSE [procs EXCEPT ![p] = [me EXCEPT !.pc = target]]

StartMutation(p, rec) ==
    /\ procs[p].pc = "idle"
    /\ opsStarted < MaxOps
    /\ procs' = [procs EXCEPT ![p] = [rec EXCEPT !.pc = "direct",
                                                 !.snap = server,
                                                 !.rows0 = rows,
                                                 !.feeds0 = feeds]]
    /\ opsStarted' = opsStarted + 1
    /\ clock' = clock + 1
    /\ UNCHANGED <<feeds, rows, nextId, server, hist>>

\* createEvent(calendarPath, event, userId) on the CalDAV feed
StartCreate(p, id, recurring) ==
    StartMutation(p, [Idle EXCEPT
        !.op = "create", !.feed = "f1", !.ev = [NoRow EXCEPT !.feedId = "f1"],
        !.inp = [id |-> id, title |-> "v1", start |-> WindowStart,
                 end |-> WindowStart + 1, isRecurring |-> recurring,
                 rule |-> IF recurring THEN "R2" ELSE ""]])

\* updateEvent(eventWithFeed, calendarPath, externalEventId, event, mode, userId)
\* called for a stored row with the row's own external id
StartUpdate(p, r, mode) ==
    /\ r.feedId = "f1"
    /\ StartMutation(p, [Idle EXCEPT
        !.op = "update", !.feed = "f1", !.ev = r, !.ext = r.ext, !.mode = mode,
        !.inp = [id |-> "", title |-> "v1", start |-> r.start,
                 end |-> r.end, isRecurring |-> r.isRecurring, rule |-> r.rule]])

\* deleteEvent(event, calendarPath, externalEventId, mode, userId)
StartDelete(p, r, mode) ==
    /\ r.feedId = "f1"
    /\ StartMutation(p, [Idle EXCEPT
        !.op = "delete", !.feed = "f1", !.ev = r, !.ext = r.ext,
        !.mode = mode])

\* the direct PUT / DELETE of `${path}/${externalEventId}.ics`
DirectRequest(p) ==
    /\ procs[p].pc = "direct"
    /\ LET me == procs[p]
       IN \E ans \in Answers(CanWrite(me, server)) :
            LET me2 == [me EXCEPT !.reqs = Append(me.reqs,
                          [m |-> DirectMethod(me.op), name |-> TargetName(me),
                           ans |-> ans])]
            IN /\ server' = IF ans = "ok" THEN Written(me, server) ELSE server
               /\ procs' = Goto(p, me2,
                     CASE ans = "ok"   -> AfterWrite(me)
                       [] ans = "fail" -> "fallback"
                       [] OTHER        -> "threw")
    /\ UNCHANGED <<feeds, rows, nextId, clock, opsStarted, hist>>

\* variant: the status of the fallback answer is not looked at
FallbackRefusedIgnored(me) == AfterWrite(me)

\* where the request goes when the fallback call is refused too
FallbackRefused(me) == "threw"

\* client.createObject / updateObject / deleteObject after a non-2xx answer
FallbackRequest(p) ==
    /\ procs[p].pc = "fallback"
    /\ LET me == procs[p]
       IN \E ans \in Answers(CanWrite(me, server)) :
            LET me2 == [me EXCEPT !.reqs = Append(me.reqs,
                          [m |-> FallbackMethod(me.op), name |-> TargetName(me),
                           ans |-> ans])]
            IN /\ server' = IF ans = "ok" THEN Written(me, server) ELSE server
               /\ procs' = Goto(p, me2,
                     CASE ans = "ok"   -> AfterWrite(me)
                       [] ans = "fail" -> FallbackRefused(me)
                       [] OTHER        -> "threw")
    /\ UNCHANGED <<feeds, rows, nextId, clock, opsStarted, hist>>

\* createEvent: calendarFeed.findFirst({url, accountId, type, userId})
FindFeed(p) ==
    /\ procs[p].pc = "findFeed"
    /\ procs' = Goto(p, procs[p], "sync")
    /\ UNCHANGED <<feeds, rows, nextId, clock, server, opsStarted, hist>>

\* the rows calendarEvent.findFirst can return as the master of the series
MasterCandidates(me, rs) ==
    IF me.op = "update"
    THEN {m \in rs : /\ me.ext # <<>>
                     /\ m.ext = << Head(me.ext) >>
                     /\ m.feedId = me.ev.feedId
                     /\ m.isMaster}
    ELSE {m \in rs : m.id = me.ev.masterEventId /\ m.feedId = me.ev.feedId}

\* 'single' mode: look the master row up
FindMaster(p) ==
    /\ procs[p].pc = "findMaster"
    /\ LET me == procs[p]
           cands == MasterCandidates(me, rows)
       IN IF cands = {} THEN procs' = Goto(p, me, "sync")
          ELSE \E m \in cands :
                 procs' = Goto(p, [me EXCEPT !.master = m],
                               IF m.rule # "" THEN "getMaster" ELSE "sync")
    /\ UNCHANGED <<feeds, rows, nextId, clock, server, opsStarted, hist>>

\* the master object with the exception of this occurrence added to its
\* first VEVENT: an EXDATE on delete, a RECURRENCE-ID property on update
WithException(me, obj) ==
    IF me.op = "delete"
    THEN [obj EXCEPT !.exdates = obj.exdates \cup {me.ev.start}]
    ELSE [obj EXCEPT !.recurid = IF obj.recurid # 0 THEN obj.recurid
                                 ELSE me.inp.start]

\* 'single' mode: GET the master object; a non-ok answer skips the rest
GetMaster(p) ==
    /\ procs[p].pc = "getMaster"
    /\ LET me   == procs[p]
           name == ResName(me.master.ext)
           obj  == ResAt(server, name)
       IN \E ans \in Answers(obj.kind # "none") :
            LET me2 == [me EXCEPT !.reqs = Append(me.reqs,
                          [m |-> "GET", name |-> name, ans |-> ans])]
            IN procs' = Goto(p, [me2 EXCEPT !.obj =
                                   IF ans = "ok" /\ obj.kind = "vevent"
                                   THEN WithException(me, obj) ELSE NoRes],
                     CASE ans = "ok"   -> IF obj.kind = "vevent"
                                          THEN "putMaster" ELSE "threw"
                       [] ans = "fail" -> "sync"
                       [] OTHER        -> "threw")
    /\ UNCHANGED <<feeds, rows, nextId, clock, server, opsStarted, hist>>

\* 'single' mode: PUT the modified master object back; the answer is not read
PutMaster(p) ==
    /\ procs[p].pc = "putMaster"
    /\ LET me   == procs[p]
           name == ResName(me.master.ext)
       IN \E ans \in Answers(name \in Names) :
            LET me2 == [me EXCEPT !.reqs = Append(me.reqs,
                          [m |-> "PUT", name |-> name, ans |-> ans])]
            IN /\ server' = IF ans = "ok" THEN [server EXCEPT ![name] = me.obj]
                            ELSE server
               /\ procs' = Goto(p, me2,
                                IF ans = "none" THEN "threw" ELSE "sync")
    /\ UNCHANGED <<feeds, rows, nextId, clock, opsStarted, hist>>

----------------------------------------------------------------------------
(* The WebCal add route: POST /api/calendar/webcal/add *)

\* the Content-Type headers a GET of the URL can answer with, as the parts
\* startsWith looks at; << >> stands for a response without the header
ContentTypes ==
    { <<"text/calendar">>, <<"text/calendar", "; charset=utf-8">>,
      <<"application/json">>, <<"text/html">>, << >> }

\* a GET that fails in transport: fetchWebCalInfo logs and rethrows
TransportFailure == <<"!">>

\* variant: the Content-Type is not looked at
IsCalendarUnchecked(ct) == TRUE

\* webCalHeaders.get("content-type")?.startsWith("text/calendar")
IsCalendar(ct) == ct # << >> /\ Head(ct) = "text/calendar"

\* the WebCal feed rows stored for the URL of the request
FeedsAtUrl(fs) == DOMAIN fs \ {"f1"}

\* the ids calendarFeed.create hands out, in this order
NewFeedIds == <<"w1", "w2", "w3", "w4">>

\* the id calendarFeed.create gives the new row: one no row has yet
NewFeedId(fs) ==
    NewFeedIds[CHOOSE k \in DOMAIN NewFeedIds :
                  /\ NewFeedIds[k] \notin DOMAIN fs
                  /\ \A j \in 1..(k - 1) : NewFeedIds[j] \in DOMAIN fs]

\* findFirst({id: calendarId, url, ...}): an undefined id is no filter
FindFirstFeed(fs, calendarId) ==
    {f \in FeedsAtUrl(fs) : calendarId = "" \/ f = calendarId}

NoRoute == [pc |-> "idle", authed |-> FALSE, url |-> "", calendarId |-> "",
            answer |-> << >>, status |-> 0, error |-> "", webCal |-> "",
            created |-> FALSE, newId |-> "", createdAt |-> 0,
            syncThrew |-> FALSE,
            feeds0 |-> << >>, rows0 |-> {}]

Respond(r, status, error, id) ==
    [r EXCEPT !.pc = "done", !.status = status, !.error = error,
              !.webCal = id]

\* the request arrives: authenticateRequest, then the check of webCalUrl
StartAdd(authed, url, calendarId) ==
    /\ route.pc = "idle"
    /\ opsStarted < MaxOps
    /\ LET r == [NoRoute EXCEPT !.authed = authed, !.url = url,
                                !.calendarId = calendarId,
                                !.feeds0 = feeds, !.rows0 = rows]
       IN route' = IF ~authed THEN Respond(r, 401, "Unauthorized", "")
                   ELSE IF url = ""
                   THEN Respond(r, 400, "Web calendar URL is required", "")
                   ELSE [r EXCEPT !.pc = "fetch"]
    /\ opsStarted' = opsStarted + 1
    /\ clock' = clock + 1
    /\ UNCHANGED <<feeds, rows, procs, hist>>

\* fetchWebCalInfo(webCalUrl) and the test of the Content-Type
AddFetch ==
    /\ route.pc = "fetch"
    /\ \E ans \in ContentTypes \cup {TransportFailure} :
          LET r == [route EXCEPT !.answer = ans]
          IN route' =
               IF ans = TransportFailure
               THEN Respond(r, 500, "Failed to add WebCal calendar", "")
               ELSE IF ~IsCalendar(ans)
               THEN Respond(r, 404, "WebCal not found", "")
               ELSE [r EXCEPT !.pc = "existing"]
    /\ UNCHANGED <<feeds, rows, procs, clock, opsStarted, hist>>

\* calendarFeed.findFirst({url, userId, id: calendarId, name})
AddFindExisting ==
    /\ route.pc = "existing"
    /\ LET found == FindFirstFeed(feeds, route.calendarId)
       IN route' = IF found # {}
                   THEN Respond(route, 200, "", CHOOSE f \in found : TRUE)
                   ELSE [route EXCEPT !.pc = "create"]
    /\ UNCHANGED <<feeds, rows, procs, clock, opsStarted, hist>>

\* calendarFeed.create({..., type: "WEBCAL", enabled: true, lastSync: now})
AddCreate ==
    /\ route.pc = "create"
    /\ \E k \in DOMAIN NewFeedIds : NewFeedIds[k] \notin DOMAIN feeds
    /\ LET id == NewFeedId(feeds)
       IN /\ feeds' = [f \in DOMAIN feeds \cup {id} |->
                         IF f = id
                         THEN [lastSync |-> clock, error |-> "",
                               syncToken |-> ""]
                         ELSE feeds[f]]
          /\ route' = [route EXCEPT !.pc = "findFeed", !.created = TRUE,
                                    !.newId = id, !.createdAt = clock]
    /\ UNCHANGED <<rows, procs, clock, opsStarted, hist>>

\* the initial sync: findFirst({id: calendarId, url, type, userId}), throw
\* when absent, else webCalService.syncCalendar(newWebCalendar.id, ...)
AddFindFeed ==
    /\ route.pc = "findFeed"
    /\ IF FindFirstFeed(feeds, route.calendarId) = {}
       THEN /\ route' = [route EXCEPT !.pc = "sync", !.syncThrew = TRUE]
            /\ UNCHANGED <<procs, clock>>
       ELSE /\ route' = [route EXCEPT !.pc = "sync"]
            /\ procs' = EnterSync([Idle EXCEPT !.op = "sync", !.rows0 = rows,
                                               !.feeds0 = feeds],
                                  "p1", route.newId, TRUE)
            /\ clock' = clock + 1
    /\ UNCHANGED <<feeds, rows, opsStarted, hist>>

\* variant: lastSync is written whether or not the sync threw
LastSyncWrittenAlways(threw) == TRUE

\* the update of lastSync is the statement after the awaited syncCalendar,
\* inside the same try
LastSyncWritten(threw) == ~threw

\* the try block of the initial sync is over: calendarFeed.update({lastSync:
\* newDate()}) when nothing threw; when the lookup or syncCalendar threw,
\* the catch logs and goes on
AddAfterSync ==
    /\ route.pc = "sync"
    /\ route.syncThrew \/ procs["p1"].pc \in {"returned", "threw"}
    /\ LET threw == route.syncThrew \/ procs["p1"].pc = "threw"
       IN /\ feeds' = IF LastSyncWritten(threw)
                      THEN [feeds EXCEPT ![route.newId].lastSync = clock + 1]
                      ELSE feeds
          /\ route' = [route EXCEPT !.pc = "respond", !.syncThrew = threw]
    /\ clock' = clock + 1
    /\ procs' = [procs EXCEPT !["p1"] = Idle]
    /\ UNCHANGED <<rows, opsStarted, hist>>

\* variant: a failed initial sync is answered with status 500
AddAnswerFailing(r) ==
    IF r.syncThrew THEN Respond(r, 500, "Failed to add WebCal calendar", "")
    ELSE Respond(r, 200, "", r.newId)

\* return NextResponse.json({success: true, webCal: {id, name, color, url}})
AddAnswer(r) == Respond(r, 200, "", r.newId)

AddRespond ==
    /\ route.pc = "respond"
    /\ route' = AddAnswer(route)
    /\ UNCHANGED <<feeds, rows, procs, clock, opsStarted, hist>>

\* the response went out
AddFinish ==
    /\ route.pc = "done"
    /\ route' = NoRoute
    /\ UNCHANGED <<feeds, rows, procs, clock, opsStarted, hist>>

----------------------------------------------------------------------------
(* The middleware: authentication and authorization of page requests *)

\* a pathname is the sequence of its pieces, so that startsWith and endsWith
\* are tests on the first and on the last pieces
publicRoutes ==
    { <<"/setup">>, <<"/api", "/setup", "/check">>, <<"/auth", "/signin">>,
      <<"/auth", "/reset-password">>, <<"/auth", "/error">>,
      <<"/api", "/auth", "/register">>, <<"/beta">>, <<"/terms">>,
      <<"/privacy">>, <<"/subscription", "/lifetime", "/success">>,
      <<"/subscription", "/lifetime", "/setup-password">> }

adminRoutes == { <<"/admin">>, <<"/logs">>, <<"/settings", "/system">> }

staticFileExtensions ==
    { ".svg", ".png", ".jpg", ".jpeg", ".gif", ".ico", ".webp", ".avif",
      ".woff", ".woff2", ".ttf", ".eot", ".otf", ".webmanifest" }

\* pathname.toLowerCase() on the last piece
ToLowerCase(piece) == IF piece = ".PNG" THEN ".png" ELSE piece

\* pathname.startsWith(route)
StartsWith(path, r) ==
    Len(path) >= Len(r) /\ SubSeq(path, 1, Len(r)) = r

\* staticFileExtensions.some((ext) => pathname.toLowerCase().endsWith(ext))
HasStaticExtension(path) ==
    ToLowerCase(path[Len(path)]) \in staticFileExtensions

\* the pathnames requested
Paths ==
    { <<"/">>, <<"/login">>, <<"/setup">>, <<"/auth", "/signin">>,
      <<"/terms">>, <<"/api", "/feeds">>, <<"/calendar">>,
      <<"/calendar", "/icon", ".png">>, <<"/settings">>,
      <<"/settings", "/system">>, <<"/settings", "/system", "/users">>,
      <<"/admin">>, <<"/admin", "/users">>, <<"/admin", "istrator">>,
      <<"/admin", "/users", "/a", ".png">>, <<"/admin", "/a", ".PNG">>,
      <<"/logs">>, <<"/logs", "/export", ".svg">> }

\* getToken: no token, or a token with its role
Tokens == {"none", "user", "admin"}

Continue == [kind |-> "next", to |-> << >>, callbackUrl |-> << >>]

Redirect(to, callback) ==
    [kind |-> "redirect", to |-> to, callbackUrl |-> callback]

\* middleware(request), in the order of its tests
middleware(path, token, acceptsJson, fromSetup) ==
    IF HasStaticExtension(path) THEN Continue
    ELSE IF path = <<"/login">> THEN Redirect(<<"/auth", "/signin">>, << >>)
    ELSE IF path = <<"/setup">> THEN Continue
    ELSE IF path = <<"/auth", "/signin">> /\ fromSetup THEN Continue
    ELSE IF path = <<"/">>
    THEN IF acceptsJson THEN Continue
         ELSE IF token # "none" THEN Redirect(<<"/calendar">>, << >>)
         ELSE Redirect(<<"/auth", "/signin">>, << >>)
    ELSE IF \E r \in publicRoutes : StartsWith(path, r) THEN Continue
    ELSE IF StartsWith(path, <<"/api">>) THEN Continue
    ELSE IF token = "none" THEN Redirect(<<"/auth", "/signin">>, path)
    ELSE IF (\E r \in adminRoutes : StartsWith(path, r)) /\ token # "admin"
    THEN Redirect(<<"/">>, << >>)
    ELSE Continue

NoMw == [pc |-> "idle", path |-> << >>, token |-> "none",
         acceptsJson |-> FALSE, fromSetup |-> FALSE, res |-> Continue]

\* a request goes through the middleware
Middleware(path, token, acceptsJson, fromSetup) ==
    mw' = [pc |-> "done", path |-> path, token |-> token,
           acceptsJson |-> acceptsJson, fromSetup |-> fromSetup,
           res |-> middleware(path, token, acceptsJson, fromSetup)]

----------------------------------------------------------------------------
(* The browser's calendar store: useCalendarStore *)

StoreFeedIds == <<"f1", "w1", "g1">>

StoreFeedType(f) == IF f = "g1" THEN "GOOGLE" ELSE FeedType(f)

TaskDay == 3

\* the tasks of the task store: one auto-scheduled, uncompleted task
StoreTasks == {[id |-> 90, start |-> TaskDay, end |-> TaskDay]}

NoCall == [op |-> "idle", pc |-> "idle", id |-> "", queue |-> << >>,
           i |-> 0, msg |-> "", reqs |-> << >>, failed |-> << >>,
           feeds0 |-> << >>,
           events0 |-> {}, from |-> 0, to |-> 0, items |-> {}]

\* feeds.find((f) => f.id === id)
HasFeed(fs, id) == \E k \in DOMAIN fs : fs[k].id = id

FeedOf(fs, id) == fs[CHOOSE k \in DOMAIN fs : fs[k].id = id]

\* the rows one sync leaves for a feed: createAllEvents over a whole queue
RECURSIVE createAllEvents(_, _, _, _)
createAllEvents(q, f, id, added) ==
    IF q = << >> THEN {added[k] : k \in DOMAIN added}
    ELSE createAllEvents(Tail(q), f, id + 1,
                         Append(added, EventRow(Head(q), f, id, added)))

\* the collections the feeds of the store were last synced from: a daily
\* series next to a single event, and a series whose rule does not parse
StoreServer(f) ==
    [n \in Names |->
        CASE f = "f1" /\ n = "u1" -> VEvent(<<"u1">>, "v0", 2, "R2")
          [] f = "f1" /\ n = "u2" -> VEvent(<<"u2">>, "v0", 4, "")
          [] f = "g1" /\ n = "u3" -> VEvent(<<"u3">>, "v0", 2, "BAD")
          [] OTHER -> NoRes]

FirstIdOf(f) == CASE f = "f1" -> 1 [] f = "w1" -> 10 [] OTHER -> 20

StoreRows(f) ==
    IF f = "w1" THEN {}
    ELSE createAllEvents(Queue(getEvents(TRUE, StoreServer(f))),
                         f, FirstIdOf(f), << >>)

\* DELETE /api/feeds/:id, accepted: the feed goes, and its events with it
apiDelete(a, id) ==
    [a EXCEPT !.feeds = SelectSeq(a.feeds, LAMBDA f : f.id # id),
              !.events = {e \in a.events : e.feedId # id}]

\* PATCH /api/feeds/:id {error}, accepted
apiPatch(a, id, msg) ==
    [a EXCEPT !.feeds = [k \in DOMAIN a.feeds |->
                           IF a.feeds[k].id = id
                           THEN [a.feeds[k] EXCEPT !.error = msg]
                           ELSE a.feeds[k]]]

\* variant: the store is updated before the backend answers
RemoveAppliedAlways(ok) == TRUE

\* if (!response.ok) throw ...: the store is updated on an accepted DELETE
RemoveApplied(ok) == ok

\* removeFeed(id), up to its request
StartRemoveFeed(id) ==
    /\ call.pc = "idle"
    /\ opsStarted < MaxOps
    /\ call' = [NoCall EXCEPT
                  !.op = "removeFeed", !.id = id,
                  !.feeds0 = store.feeds, !.events0 = store.events,
                  !.pc = IF HasFeed(store.feeds, id) THEN "delete"
                         ELSE "returned"]
    /\ opsStarted' = opsStarted + 1
    /\ UNCHANGED <<store, api>>

\* the answer to DELETE /api/feeds/:id (or /api/calendar/google/:id)
RemoveAnswer ==
    /\ call.pc = "delete"
    /\ \E ok \in BOOLEAN :
          /\ store' = IF RemoveApplied(ok)
                      THEN [store EXCEPT
                              !.feeds = SelectSeq(store.feeds,
                                            LAMBDA f : f.id # call.id),
                              !.events = {e \in store.events :
                                            e.feedId # call.id}]
                      ELSE store
          /\ api' = IF ok THEN apiDelete(api, call.id) ELSE api
          /\ call' = [call EXCEPT
                        !.reqs = Append(call.reqs, <<"DELETE", call.id>>),
                        !.pc = IF ok THEN "returned" ELSE "threw"]
    /\ UNCHANGED opsStarted

\* the message syncFeed throws on a refused sync request
SyncFailure(type) ==
    CASE type = "GOOGLE" -> "Failed to sync Google Calendar"
      [] type = "CALDAV" -> "Failed to sync CalDAV Calendar"
      [] OTHER -> "Failed to update Web Calendar subscription"

\* syncAllFeeds: const { feeds } = get()
StartSyncAllFeeds ==
    /\ call.pc = "idle"
    /\ opsStarted < MaxOps
    /\ call' = [NoCall EXCEPT
                  !.op = "syncAllFeeds", !.queue = store.feeds, !.i = 1,
                  !.feeds0 = store.feeds, !.events0 = store.events,
                  !.pc = "loop"]
    /\ opsStarted' = opsStarted + 1
    /\ UNCHANGED <<store, api>>

\* variant: the loop does not look at feed.enabled
SyncWantedAlways(feed) == TRUE

\* if (feed.enabled) await get().syncFeed(feed.id)
SyncWanted(feed) == feed.enabled

\* one turn of the loop of syncAllFeeds, up to the request of syncFeed
NextFeed ==
    /\ call.pc = "loop"
    /\ IF call.i > Len(call.queue)
       THEN /\ call' = [call EXCEPT !.pc = "returned"]
            /\ store' = store
       ELSE LET feed == call.queue[call.i]
            IN IF SyncWanted(feed) /\ HasFeed(store.feeds, feed.id)
               THEN /\ call' = [call EXCEPT !.pc = "sync", !.id = feed.id]
                    /\ store' = [store EXCEPT !.error = ""]
               ELSE /\ call' = [call EXCEPT !.i = call.i + 1]
                    /\ store' = store
    /\ UNCHANGED <<api, opsStarted>>

\* the answer to the sync request of syncFeed
SyncAnswer ==
    /\ call.pc = "sync"
    /\ \E ok \in BOOLEAN :
          call' = [call EXCEPT
                     !.reqs = Append(call.reqs, <<"PUT", call.id>>),
                     !.msg = IF ok THEN ""
                             ELSE SyncFailure(StoreFeedType(call.id)),
                     !.failed = IF ok THEN call.failed
                                ELSE Append(call.failed,
                                       <<call.id,
                                         SyncFailure(StoreFeedType(call.id))>>),
                     !.pc = IF ok THEN "load" ELSE "patch"]
    /\ UNCHANGED <<store, api, opsStarted>>

\* loadFromDatabase: both GETs answered, or the error kept in the store; it
\* never throws
LoadFromDatabase ==
    /\ call.pc = "load"
    /\ \E ok \in BOOLEAN :
          store' = IF ok
                   THEN [feeds |-> api.feeds, events |-> api.events,
                         error |-> ""]
                   ELSE [store EXCEPT
                           !.error = "Failed to load feeds from database"]
    /\ call' = [call EXCEPT !.pc = "schedule"]
    /\ UNCHANGED <<api, opsStarted>>

\* triggerScheduleAllTasks of the task store: returns or throws
Schedule ==
    /\ call.pc = "schedule"
    /\ \E ok \in BOOLEAN :
          call' = IF ok
                  THEN [call EXCEPT !.i = call.i + 1, !.pc = "loop"]
                  ELSE [call EXCEPT
                          !.msg = "Unknown error",
                          !.failed = Append(call.failed,
                                            <<call.id, "Unknown error">>),
                          !.pc = "patch"]
    /\ UNCHANGED <<store, api, opsStarted>>

\* the catch of syncFeed: await updateFeed(id, {error}); a refused PATCH
\* makes updateFeed throw, out of the catch block and out of syncAllFeeds
UpdateFeed ==
    /\ call.pc = "patch"
    /\ IF ~HasFeed(store.feeds, call.id)
       THEN /\ call' = [call EXCEPT !.i = call.i + 1, !.pc = "loop"]
            /\ UNCHANGED <<store, api>>
       ELSE \E ok \in BOOLEAN :
               /\ call' = [call EXCEPT
                      !.reqs = Append(call.reqs, <<"PATCH", call.id>>),
                      !.i = IF ok THEN call.i + 1 ELSE call.i,
                      !.pc = IF ok THEN "loop" ELSE "threw"]
               /\ store' = IF ok
                           THEN [store EXCEPT !.feeds =
                                   [k \in DOMAIN store.feeds |->
                                      IF store.feeds[k].id = call.id
                                      THEN [store.feeds[k] EXCEPT
                                              !.error = call.msg]
                                      ELSE store.feeds[k]]]
                           ELSE store
               /\ api' = IF ok THEN apiPatch(api, call.id, call.msg) ELSE api
    /\ UNCHANGED opsStarted

\* variant: every stored event in the range is shown
ShownDirectlyAll(e) == TRUE

\* if (!event.isRecurring || !event.isMaster)
ShownDirectly(e) == ~e.isRecurring \/ ~e.isMaster

\* getExpandedEvents(start, end) as getAllCalendarItems calls it, with
\* expandInstances left at false: the branch for masters is not taken
getExpandedEvents(events, start, end) ==
    {e \in events : ShownDirectly(e) /\ e.start <= end /\ e.end >= start}

\* getTasksAsEvents: the scheduled tasks of the range, as events
getTasksAsEvents(tasks, start, end) ==
    {[id |-> t.id, feedId |-> "tasks", ext |-> << >>, title |-> "task",
      start |-> t.start, end |-> t.end, isRecurring |-> FALSE,
      rule |-> "", isMaster |-> FALSE, masterEventId |-> 0,
      recurringEventId |-> << >>] :
        t \in {u \in tasks : u.start >= start /\ u.start <= end}}

getAllCalendarItems(events, tasks, start, end) ==
    getExpandedEvents(events, start, end)
        \cup getTasksAsEvents(tasks, start, end)

\* the ranges the calendar views ask for
ViewDays == 0 .. (WindowEnd + 1)

GetAllCalendarItems(start, end) ==
    /\ call.pc = "idle"
    /\ opsStarted < MaxOps
    /\ call' = [NoCall EXCEPT
                  !.op = "getAllCalendarItems", !.pc = "returned",
                  !.from = start, !.to = end,
                  !.events0 = store.events,
                  !.items = getAllCalendarItems(store.events, StoreTasks,
                                                start, end)]
    /\ opsStarted' = opsStarted + 1
    /\ UNCHANGED <<store, api>>

\* the store call is over
StoreFinish ==
    /\ call.pc \in {"returned", "threw"}
    /\ call' = NoCall
    /\ UNCHANGED <<store, api, opsStarted>>

NoStore == [feeds |-> << >>, events |-> {}, error |-> ""]

\* nothing has gone through the store, the add route or the middleware
UiInit ==
    /\ store = NoStore
    /\ api = NoStore
    /\ call = NoCall
    /\ route = NoRoute
    /\ mw = NoMw

----------------------------------------------------------------------------

\* the error a feed can carry from an earlier failure
FeedErrors == {"", "e0"}

Init ==
    /\ \E e \in FeedErrors :
          feeds = [f \in Feeds |->
                     [lastSync |-> 0, error |-> e, syncToken |-> ""]]
    /\ rows = {}
    /\ nextId = 1
    /\ clock = 1
    /\ server \in InitServers
    /\ procs = [p \in Procs |-> Idle]
    /\ opsStarted = 0
    /\ hist = [f \in Feeds |-> NoHist]
    /\ UiInit

\* no request is in flight
Quiet == \A q \in Procs : procs[q].pc = "idle"

\* the steps of a request once it has started
Step(p) ==
    \/ SyncFind(p) /\ UNCHANGED uiVars
    \/ SyncDelete(p) /\ UNCHANGED uiVars
    \/ SyncFetch(p) /\ UNCHANGED uiVars
    \/ SyncCreate(p) /\ UNCHANGED uiVars
    \/ SyncUpdate(p) /\ UNCHANGED uiVars
    \/ DirectRequest(p) /\ UNCHANGED uiVars
    \/ FallbackRequest(p) /\ UNCHANGED uiVars
    \/ FindFeed(p) /\ UNCHANGED uiVars
    \/ FindMaster(p) /\ UNCHANGED uiVars
    \/ GetMaster(p) /\ UNCHANGED uiVars
    \/ PutMaster(p) /\ UNCHANGED uiVars
    \/ Finish(p) /\ UNCHANGED uiVars

\* Spec: requests of every kind, served one at a time
Next ==
    \/ \E f \in Feeds, valid \in BOOLEAN :
          Quiet /\ StartSync("p1", f, valid) /\ UNCHANGED uiVars
    \/ \E id \in Names, recurring \in BOOLEAN :
          Quiet /\ StartCreate("p1", id, recurring) /\ UNCHANGED uiVars
    \/ \E r \in rows, mode \in Modes :
          Quiet /\ StartUpdate("p1", r, mode) /\ UNCHANGED uiVars
    \/ \E r \in rows, mode \in Modes :
          Quiet /\ StartDelete("p1", r, mode) /\ UNCHANGED uiVars
    \/ Step("p1")

Spec == Init /\ [][Next]_vars

\* SpecOverlap: syncCalendar runs of two requests that may overlap in time
NextOverlap ==
    \E p \in Procs :
        \/ \E f \in Feeds, valid \in BOOLEAN :
              StartSync(p, f, valid) /\ UNCHANGED uiVars
        \/ SyncFind(p) /\ UNCHANGED uiVars
        \/ SyncDelete(p) /\ UNCHANGED uiVars
        \/ SyncFetch(p) /\ UNCHANGED uiVars
        \/ SyncCreate(p) /\ UNCHANGED uiVars
        \/ SyncUpdate(p) /\ UNCHANGED uiVars
        \/ Finish(p) /\ UNCHANGED uiVars

\* the overlapping runs work on a collection of at most two objects
InitOverlap == Init /\ server["u3"] = NoRes /\ feeds["f1"].error = ""

SpecOverlap == InitOverlap /\ [][NextOverlap]_vars

----------------------------------------------------------------------------
(* SpecFetch: single syncCalendar runs over collections of every VEVENT
   shape, and the WebCal normalisation applied to the same VEVENTs *)

FetchShapes ==
    { [VEvent(uid, "v0", s, rule) EXCEPT
           !.end = IF s = NoDate THEN NoDate ELSE s + d, !.recurid = rid] :
        uid \in {<<"u1">>, <<"u1", "x">>},
        s \in {NoDate, 0, 1, WindowEnd},
        d \in {1, 2},
        rule \in {"", "R2", "R5", "BAD"},
        rid \in {0, 2} }

FetchCompanions ==
    { NoRes, VEvent(<<"u2">>, "v0", 2, "R2"),
      [VEvent(<<"u1">>, "v0", 2, "") EXCEPT !.recurid = 2],
      VEvent(<<"u1">>, "v1", 3, "") }

InitFetch ==
    /\ feeds = [f \in Feeds |-> [lastSync |-> 0, error |-> "", syncToken |-> ""]]
    /\ rows = {}
    /\ nextId = 1
    /\ clock = 1
    /\ procs = [p \in Procs |-> Idle]
    /\ opsStarted = 0
    /\ hist = [f \in Feeds |-> NoHist]
    /\ UiInit
    /\ \E a \in FetchShapes, b \in FetchCompanions :
          server = [n \in Names |->
                      CASE n = "u1" -> a [] n = "u2" -> b [] OTHER -> NoRes]

\* processWebcalData applied to the VEVENTs of the collection
ParseWebcal(p) ==
    /\ procs[p].pc = "idle"
    /\ opsStarted < MaxOps
    /\ procs' = [procs EXCEPT ![p] =
          [Idle EXCEPT !.op = "parse", !.pc = "returned", !.feed = "w1",
                       !.fetchSrv = server, !.i = 1,
                       !.events = processWebcalData(server, clock)]]
    /\ opsStarted' = opsStarted + 1
    /\ clock' = clock + 1
    /\ UNCHANGED <<feeds, rows, nextId, server, hist>>

NextFetch ==
    \/ StartSync("p1", "f1", TRUE) /\ UNCHANGED uiVars
    \/ ParseWebcal("p1") /\ UNCHANGED uiVars
    \/ SyncFind("p1") /\ UNCHANGED uiVars
    \/ SyncDelete("p1") /\ UNCHANGED uiVars
    \/ SyncFetch("p1") /\ UNCHANGED uiVars
    \/ SyncCreate("p1") /\ UNCHANGED uiVars
    \/ SyncUpdate("p1") /\ UNCHANGED uiVars
    \/ Finish("p1") /\ UNCHANGED uiVars

SpecFetch == InitFetch /\ [][NextFetch]_vars

----------------------------------------------------------------------------
(* calendar-db: deleteCalendarEvent *)

\* getEvent(eventId): findUnique({id}), null when absent
getEvent(rs, id) ==
    IF \E r \in rs : r.id = id THEN CHOOSE r \in rs : r.id = id ELSE NoRow

\* calendarEvent.delete({id}): "deleting the master event will cascade to
\* all instances"
deleteRow(rs, id) == {r \in rs : r.id # id /\ r.masterEventId # id}

\* which delete follows getEvent
AfterGetEvent(event, mode) ==
    IF event = NoRow THEN "threw"
    ELSE IF mode = "series" /\ ~(event.isMaster \/ event.masterEventId = 0)
    THEN "dbfind"
    ELSE "dbdelete"

\* deleteCalendarEvent(eventId, mode), up to the answer of getEvent
StartDeleteCalendarEvent(p, id, mode) ==
    /\ procs[p].pc = "idle"
    /\ opsStarted < MaxOps
    /\ LET event == getEvent(rows, id)
       IN procs' = [procs EXCEPT ![p] =
             [Idle EXCEPT !.op = "deleteCalendarEvent", !.mode = mode,
                          !.i = id, !.ev = event, !.rows0 = rows,
                          !.feeds0 = feeds,
                          !.pc = AfterGetEvent(event, mode)]]
    /\ opsStarted' = opsStarted + 1
    /\ UNCHANGED <<feeds, rows, nextId, clock, server, hist>>

\* calendarEvent.delete({id: event.id})
DbDelete(p) ==
    /\ procs[p].pc = "dbdelete"
    /\ rows' = deleteRow(rows, procs[p].ev.id)
    /\ procs' = [procs EXCEPT ![p].pc = "returned"]
    /\ UNCHANGED <<feeds, nextId, clock, server, opsStarted, hist>>

\* calendarEvent.findFirst({id: event.masterEventId})
DbFindMaster(p) ==
    /\ procs[p].pc = "dbfind"
    /\ procs' = [procs EXCEPT
                   ![p].master = getEvent(rows, procs[p].ev.masterEventId),
                   ![p].pc = "dbdeletemaster"]
    /\ UNCHANGED <<feeds, rows, nextId, clock, server, opsStarted, hist>>

\* calendarEvent.delete({id: masterEvent?.id}); without an id it throws
DbDeleteMaster(p) ==
    /\ procs[p].pc = "dbdeletemaster"
    /\ rows' = IF procs[p].master = NoRow THEN rows
               ELSE deleteRow(rows, procs[p].master.id)
    /\ procs' = [procs EXCEPT ![p].pc =
                   IF procs[p].master = NoRow THEN "threw" ELSE "returned"]
    /\ UNCHANGED <<feeds, nextId, clock, server, opsStarted, hist>>

\* the collections the rows come from: two daily series, and next to them
\* a single event or nothing
DbServers ==
    { [n \in Names |->
          CASE n = "u1" -> VEvent(<<"u1">>, "v0", 1, "R2")
            [] n = "u2" -> VEvent(<<"u2">>, "v0", 3, "R2")
            [] OTHER -> third] :
        third \in {NoRes, VEvent(<<"u3">>, "v0", 2, "")} }

InitDb ==
    /\ feeds = [f \in Feeds |-> [lastSync |-> 0, error |-> "", syncToken |-> ""]]
    /\ rows = {}
    /\ nextId = 1
    /\ clock = 1
    /\ server \in DbServers
    /\ procs = [p \in Procs |-> Idle]
    /\ opsStarted = 0
    /\ hist = [f \in Feeds |-> NoHist]
    /\ UiInit

\* SpecDb: a sync fills the rows, deleteCalendarEvent works on them
NextDb ==
    \/ StartSync("p1", "f1", TRUE) /\ UNCHANGED uiVars
    \/ SyncFind("p1") /\ UNCHANGED uiVars
    \/ SyncDelete("p1") /\ UNCHANGED uiVars
    \/ SyncFetch("p1") /\ UNCHANGED uiVars
    \/ SyncCreate("p1") /\ UNCHANGED uiVars
    \/ SyncUpdate("p1") /\ UNCHANGED uiVars
    \/ \E id \in 1..nextId, mode \in Modes :
          StartDeleteCalendarEvent("p1", id, mode) /\ UNCHANGED uiVars
    \/ DbDelete("p1") /\ UNCHANGED uiVars
    \/ DbFindMaster("p1") /\ UNCHANGED uiVars
    \/ DbDeleteMaster("p1") /\ UNCHANGED uiVars
    \/ Finish("p1") /\ UNCHANGED uiVars

SpecDb == InitDb /\ [][NextDb]_vars

----------------------------------------------------------------------------
(* SpecAdd: requests to the WebCal add route, one at a time *)

InitAdd ==
    /\ \E old \in SUBSET {"w0"} :
          feeds = [f \in {"f1"} \cup old |->
                     [lastSync |-> 0, error |-> "", syncToken |-> ""]]
    /\ rows = {}
    /\ nextId = 1
    /\ clock = 1
    /\ server = EmptyServer
    /\ procs = [p \in Procs |-> Idle]
    /\ opsStarted = 0
    /\ hist = [f \in Feeds |-> NoHist]
    /\ UiInit

\* what the add route leaves alone
addFrame == <<nextId, server, store, api, call, mw>>

NextAdd ==
    \/ \E authed \in BOOLEAN, url \in {"", "U"}, id \in {"", "zz"} :
          StartAdd(authed, url, id) /\ UNCHANGED addFrame
    \/ AddFetch /\ UNCHANGED addFrame
    \/ AddFindExisting /\ UNCHANGED addFrame
    \/ AddCreate /\ UNCHANGED addFrame
    \/ AddFindFeed /\ UNCHANGED addFrame
    \/ SyncFind("p1") /\ UNCHANGED uiVars
    \/ SyncDelete("p1") /\ UNCHANGED uiVars
    \/ SyncFetch("p1") /\ UNCHANGED uiVars
    \/ SyncUpdate("p1") /\ UNCHANGED uiVars
    \/ AddAfterSync /\ UNCHANGED addFrame
    \/ AddRespond /\ UNCHANGED addFrame
    \/ AddFinish /\ UNCHANGED addFrame

SpecAdd == InitAdd /\ [][NextAdd]_vars

----------------------------------------------------------------------------
(* SpecMw: page requests through the middleware *)

InitMw ==
    /\ feeds = [f \in Feeds |-> [lastSync |-> 0, error |-> "", syncToken |-> ""]]
    /\ rows = {}
    /\ nextId = 1
    /\ clock = 1
    /\ server = EmptyServer
    /\ procs = [p \in Procs |-> Idle]
    /\ opsStarted = 0
    /\ hist = [f \in Feeds |-> NoHist]
    /\ UiInit

NextMw ==
    \E path \in Paths, token \in Tokens, acceptsJson \in BOOLEAN,
       fromSetup \in BOOLEAN :
        /\ Middleware(path, token, acceptsJson, fromSetup)
        /\ UNCHANGED <<calVars, store, api, call, route>>

SpecMw == InitMw /\ [][NextMw]_vars

----------------------------------------------------------------------------
(* SpecStore: calls of the browser's calendar store, one at a time, against
   a backend that accepts or refuses each request *)

InitStore ==
    /\ feeds = [f \in Feeds |-> [lastSync |-> 0, error |-> "", syncToken |-> ""]]
    /\ rows = {}
    /\ nextId = 1
    /\ clock = 1
    /\ server = EmptyServer
    /\ procs = [p \in Procs |-> Idle]
    /\ opsStarted = 0
    /\ hist = [f \in Feeds |-> NoHist]
    /\ \E on \in [DOMAIN StoreFeedIds -> BOOLEAN] :
          store = [feeds |-> [k \in DOMAIN StoreFeedIds |->
                                [id |-> StoreFeedIds[k],
                                 type |-> StoreFeedType(StoreFeedIds[k]),
                                 enabled |-> on[k], error |-> ""]],
                   events |-> UNION {StoreRows(StoreFeedIds[k]) :
                                        k \in DOMAIN StoreFeedIds},
                   error |-> ""]
    /\ api = store
    /\ call = NoCall
    /\ route = NoRoute
    /\ mw = NoMw

\* what no call of the store touches
storeFrame == <<feeds, rows, nextId, clock, server, procs, hist, route, mw>>

NextStore ==
    \/ \E id \in {"f1", "g1", "zz"} :
          StartRemoveFeed(id) /\ UNCHANGED storeFrame
    \/ RemoveAnswer /\ UNCHANGED storeFrame
    \/ StartSyncAllFeeds /\ UNCHANGED storeFrame
    \/ NextFeed /\ UNCHANGED storeFrame
    \/ SyncAnswer /\ UNCHANGED storeFrame
    \/ LoadFromDatabase /\ UNCHANGED storeFrame
    \/ Schedule /\ UNCHANGED storeFrame
    \/ UpdateFeed /\ UNCHANGED storeFrame
    \/ \E start \in ViewDays, end \in ViewDays :
          start <= end /\ GetAllCalendarItems(start, end)
                       /\ UNCHANGED storeFrame
    \/ StoreFinish /\ UNCHANGED storeFrame

SpecStore == InitStore /\ [][NextStore]_vars

----------------------------------------------------------------------------
(* Properties *)

\* what identifies an event's content in a row and in a fetched event
Content(x) == <<x.ext, x.title, x.start, x.end, x.isMaster>>

\* the rows of feed f are the events, one row each, and nothing else
ExactlyRows(rs, f, events) ==
    LET fr == FeedRows(rs, f)
        cs == {Content(r) : r \in fr}
                \cup {Content(events[k]) : k \in DOMAIN events}
    IN \A c \in cs :
          Cardinality({r \in fr : Content(r) = c})
              = Cardinality({k \in DOMAIN events : Content(events[k]) = c})

\* request p takes the step on which its syncCalendar call returns
SyncReturns(p) == procs[p].pc = "update" /\ procs'[p].pc # "update"

FetchFailed(p) == procs[p].i > 0 /\ ~procs[p].fetchOk

\* C2: a run whose remote fetch failed has thrown, has set the feed's error
\* to a non-empty text and has left lastSync as it was.
C2_FailedFetchThrows ==
    \A p \in Procs :
        (FetchFailed(p) /\ procs[p].pc \notin SyncPcs) =>
            /\ ~procs[p].syncDone
            /\ feeds[procs[p].feed].error # ""
            /\ feeds[procs[p].feed].lastSync = procs[p].prevLastSync

\* a run on the CalDAV feed returned normally although its fetch had failed
C2_Witness ==
    \E p \in Procs :
        /\ FetchFailed(p) /\ procs[p].op = "sync" /\ procs[p].feed = "f1"
        /\ procs[p].pc = "returned"
        /\ feeds["f1"].lastSync > procs[p].prevLastSync

\* C3: nothing excludes a second run on a feed: whenever a run is at work on
\* a feed and another request is free, that request can start syncCalendar
\* on the same feed.
C3_NoMutualExclusion ==
    \A p \in Procs, q \in Procs, f \in Feeds :
        (/\ p # q
         /\ InSync(q) /\ procs[q].feed = f
         /\ procs[p].pc = "idle"
         /\ opsStarted < MaxOps) => ENABLED StartSync(p, f, TRUE)

\* two overlapping runs have both returned and the feed holds an event twice
C3_Witness ==
    /\ \A p \in Procs :
          /\ procs[p].pc = "returned" /\ procs[p].overlap
          /\ procs[p].feed = "f1" /\ procs[p].fetchOk
    /\ \E r1 \in FeedRows(rows, "f1"), r2 \in FeedRows(rows, "f1") :
          r1.id # r2.id /\ Content(r1) = Content(r2)

\* C4: with runs that do not overlap, in every state (during a run and
\* after it) each row that names a master names an existing row of the same
\* feed with isMaster = TRUE, and within a feed every master row was created
\* before every row that is not a master.
C4_MasterReferencesHold ==
    \A r \in rows :
        /\ r.masterEventId # 0 =>
              \E m \in rows : /\ m.id = r.masterEventId
                              /\ m.isMaster
                              /\ m.feedId = r.feedId
        /\ ~r.isMaster =>
              \A m \in FeedRows(rows, r.feedId) : m.isMaster => m.id < r.id

\* a run is in the middle of its creates and an instance row already names
\* its master row
C4_Witness ==
    \E p \in Procs :
        /\ procs[p].pc = "create"
        /\ \E r \in FeedRows(rows, procs[p].feed) :
              /\ r.id >= procs[p].startId
              /\ r.masterEventId # 0
              /\ r.recurringEventId # <<>>

\* the run of request p came straight after a returned run on the same feed
\* and both fetched the same, unchanged remote data
SameDataTwice(p) ==
    /\ procs[p].syncDone /\ ~procs[p].overlap /\ procs[p].fetchOk
    /\ procs[p].prev.valid /\ procs[p].prev.fetchOk
    /\ procs[p].prev.srv = procs[p].fetchSrv

GoodNames(srv) == {n \in Names : srv[n].kind = "vevent"}
BadNames(srv) == {n \in Names : srv[n].kind = "bad"}

\* the fetch of request p returned objects of one plain event each, of which
\* exactly one does not parse
OneMalformed(p) ==
    /\ procs[p].syncDone /\ ~procs[p].overlap /\ procs[p].fetchOk
    /\ Cardinality(BadNames(procs[p].fetchSrv)) = 1
    /\ \A n \in GoodNames(procs[p].fetchSrv) :
          procs[p].fetchSrv[n].rule = "" /\ procs[p].fetchSrv[n].recurid = 0

\* C6: when exactly one of the N fetched objects (one event each) fails to
\* parse, the run still returns and the feed holds N - 1 rows: one for each
\* well-formed object, those before and those after the bad one alike.
C6_OneBadObjectSkipped ==
    \A p \in Procs :
        OneMalformed(p) =>
            LET fr   == FeedRows(rows, procs[p].feed)
                good == GoodNames(procs[p].fetchSrv)
            IN /\ Cardinality(fr) = Cardinality(good)
               /\ \A n \in good :
                     \E r \in fr : /\ r.ext = procs[p].fetchSrv[n].uid
                                   /\ ~r.isMaster /\ r.masterEventId = 0

\* a run over three objects, the middle one malformed, returned with the
\* event before it and the event after it stored
C6_Witness ==
    \E p \in Procs :
        /\ OneMalformed(p)
        /\ procs[p].pc = "returned"
        /\ procs[p].fetchSrv["u2"].kind = "bad"
        /\ GoodNames(procs[p].fetchSrv) = {"u1", "u3"}
        /\ {r.ext : r \in FeedRows(rows, procs[p].feed)} = {<<"u1">>, <<"u3">>}

\* request p works in 'single' mode on a stored occurrence of a series,
\* called with the occurrence row's own externalEventId
OnOccurrence(p, op) ==
    /\ procs[p].op = op /\ procs[p].mode = "single"
    /\ procs[p].ext = procs[p].ev.ext
    /\ procs[p].ev.isRecurring /\ ~procs[p].ev.isMaster
    /\ procs[p].ev.masterEventId # 0

\* the resource that holds the master of the occurrence request p works on
MasterName(p) == ResName(procs[p].ev.recurringEventId)

\* C7: deleteEvent in 'single' mode on an occurrence sends no DELETE and no
\* deleteObject for the master's resource, and the master object on the
\* server changes at most by the EXDATE of the occurrence.
C7_SingleDeleteKeepsMaster ==
    \A p \in Procs :
        OnOccurrence(p, "delete") =>
            /\ \A k \in DOMAIN procs[p].reqs :
                  ~(/\ procs[p].reqs[k].m \in {"DELETE", "deleteObject"}
                    /\ procs[p].reqs[k].name = MasterName(p))
            /\ LET was == procs[p].snap[MasterName(p)]
                   now == server[MasterName(p)]
               IN now = was
                  \/ now = [was EXCEPT !.exdates = @ \cup {procs[p].ev.start}]

\* a 'single' delete of an occurrence returned after its DELETE removed the
\* master's resource from the server
C7_Witness ==
    \E p \in Procs :
        /\ OnOccurrence(p, "delete")
        /\ procs[p].pc = "returned"
        /\ procs[p].reqs[1] = [m |-> "DELETE", name |-> MasterName(p),
                               ans |-> "ok"]
        /\ procs[p].snap[MasterName(p)].kind = "vevent"
        /\ server[MasterName(p)].kind = "none"

\* C8: updateEvent in 'single' mode on an occurrence leaves the master's
\* VEVENT on the server as it was: the same summary, start and rule, and no
\* RECURRENCE-ID on it.
C8_SingleUpdateKeepsMaster ==
    \A p \in Procs :
        OnOccurrence(p, "update") =>
            LET was == procs[p].snap[MasterName(p)]
                now == server[MasterName(p)]
            IN /\ now.kind = was.kind
               /\ now.title = was.title
               /\ now.start = was.start
               /\ now.rule = was.rule
               /\ now.recurid = was.recurid

\* a 'single' update of the second occurrence has replaced the summary and
\* the start of the master's VEVENT by the occurrence's
C8_Witness ==
    \E p \in Procs :
        /\ OnOccurrence(p, "update")
        /\ procs[p].snap[MasterName(p)].title = "v0"
        /\ server[MasterName(p)].title = "v1"
        /\ server[MasterName(p)].start # procs[p].snap[MasterName(p)].start

\* every request of the sequence was answered 2xx, but for a refused direct
\* request that a 2xx fallback followed
AllAccepted(op, reqs) ==
    \A k \in DOMAIN reqs :
        \/ reqs[k].ans = "ok"
        \/ /\ k = 1 /\ reqs[k].ans = "fail" /\ Len(reqs) >= 2
           /\ reqs[2].m = FallbackMethod(op) /\ reqs[2].ans = "ok"

\* C9: createEvent, updateEvent and deleteEvent return without throwing only
\* if every remote request they sent, the GET and the PUT of the master in
\* 'single' mode included, was answered 2xx (a refused direct request being
\* allowed when its fallback was answered 2xx).
C9_ReturnMeansAllAccepted ==
    \A p \in Procs :
        (procs[p].op \in MutationOps /\ procs[p].pc = "returned") =>
            AllAccepted(procs[p].op, procs[p].reqs)

\* a 'single' update returned although the PUT of the master was refused
C9_Witness ==
    \E p \in Procs :
        /\ procs[p].op = "update" /\ procs[p].pc = "returned"
        /\ Len(procs[p].reqs) = 3
        /\ procs[p].reqs[3].m = "PUT" /\ procs[p].reqs[3].ans = "fail"

\* the direct request of p and its fallback were both answered non-2xx
BothRefused(p) ==
    /\ procs[p].op \in MutationOps
    /\ Len(procs[p].reqs) >= 2
    /\ procs[p].reqs[1].ans = "fail"
    /\ procs[p].reqs[2].m = FallbackMethod(procs[p].op)
    /\ procs[p].reqs[2].ans = "fail"

\* C10: when the server refuses the direct request and the fallback too, the
\* operation throws, syncCalendar is not started, and no event row and no
\* feed row has changed since the operation began.
C10_RefusedLeavesStorage ==
    \A p \in Procs :
        BothRefused(p) =>
            /\ procs[p].pc = "threw"
            /\ procs[p].startId = 0 /\ ~procs[p].syncDone
            /\ rows = procs[p].rows0
            /\ feeds = procs[p].feeds0

\* an update of a stored row was refused twice, with rows in storage
C10_Witness ==
    \E p \in Procs :
        /\ BothRefused(p)
        /\ procs[p].op = "update"
        /\ procs[p].pc = "threw"
        /\ procs[p].rows0 # {}
        /\ feeds[procs[p].feed].lastSync > 0

\* the server accepted the remote write of request p, directly or through
\* the fallback call
WriteAccepted(p) ==
    /\ procs[p].op \in MutationOps
    /\ Len(procs[p].reqs) >= 1
    /\ \/ procs[p].reqs[1].ans = "ok"
       \/ /\ procs[p].reqs[1].ans = "fail" /\ Len(procs[p].reqs) >= 2
          /\ procs[p].reqs[2].m = FallbackMethod(procs[p].op)
          /\ procs[p].reqs[2].ans = "ok"

\* C11: a createEvent, updateEvent or deleteEvent call whose remote write
\* was accepted has run syncCalendar to its end when it returns or throws,
\* and until that sync starts the event rows are as they were when the call
\* began.
C11_AcceptedWriteThenSync ==
    \A p \in Procs :
        WriteAccepted(p) =>
            /\ procs[p].pc \in {"returned", "threw"} => procs[p].syncDone
            /\ procs[p].startId = 0 => rows = procs[p].rows0

\* a 'single' update whose PUT was accepted threw on the GET of the master
\* without having synchronised
C11_Witness ==
    \E p \in Procs :
        /\ WriteAccepted(p) /\ procs[p].op = "update"
        /\ procs[p].pc = "threw" /\ ~procs[p].syncDone
        /\ procs[p].startId = 0
        /\ Len(procs[p].reqs) = 2
        /\ procs[p].reqs[2] = [m |-> "GET", name |-> MasterName(p),
                               ans |-> "none"]
        /\ server # procs[p].snap

\* C12: a syncCalendar call whose id, url, type and user match no feed row
\* throws after the lookup and changes nothing: the event rows and the feed
\* rows (lastSync, syncToken) are as they were when it was called, and no
\* remote request has been sent.
C12_UnknownFeedThrows ==
    \A p \in Procs :
        (procs[p].op = "sync" /\ ~procs[p].valid /\ procs[p].pc # "find") =>
            /\ procs[p].pc = "threw" /\ ~procs[p].syncDone
            /\ rows = procs[p].rows0
            /\ feeds = procs[p].feeds0
            /\ procs[p].i = 0 /\ procs[p].reqs = << >>

\* a call that matched no feed has thrown while the feed named by its id
\* holds rows of an earlier sync
C12_Witness ==
    \E p \in Procs :
        /\ procs[p].op = "sync" /\ ~procs[p].valid
        /\ procs[p].pc = "threw"
        /\ FeedRows(rows, procs[p].feed) # {}
        /\ feeds[procs[p].feed].lastSync > 0

\* C13: once a syncCalendar run has returned, the feed's lastSync is the time
\* of that run and the feed's error is cleared, whatever it was before.
C13_ReturnClearsError ==
    \A p \in Procs :
        (procs[p].syncDone /\ ~procs[p].overlap) =>
            /\ feeds[procs[p].feed].lastSync = clock
            /\ feeds[procs[p].feed].error = ""

\* a run with a successful fetch returned and the feed still carries the
\* error it had before the run
C13_Witness ==
    \E p \in Procs :
        /\ procs[p].op = "sync" /\ procs[p].syncDone /\ procs[p].fetchOk
        /\ procs[p].pc = "returned"
        /\ procs[p].feeds0[procs[p].feed].error = "e0"
        /\ feeds[procs[p].feed].error = "e0"
        /\ feeds[procs[p].feed].lastSync = clock

\* C14: in every run the feed's earlier rows are gone before the fetch is
\* attempted (the feed is empty while the fetch is pending), and a run
\* whose fetch failed leaves the feed with zero rows: nothing puts the
\* deleted rows back.
C14_DeleteBeforeFetch ==
    \A p \in Procs :
        ~procs[p].overlap =>
            /\ procs[p].pc = "fetch" => FeedRows(rows, procs[p].feed) = {}
            /\ procs[p].i > 0 =>
                  \A r \in FeedRows(rows, procs[p].feed) :
                      r.id >= procs[p].startId
            /\ FetchFailed(p) => FeedRows(rows, procs[p].feed) = {}

\* a run on a feed that held rows returned after a failed fetch and the feed
\* is empty
C14_Witness ==
    \E p \in Procs :
        /\ FetchFailed(p) /\ ~procs[p].overlap
        /\ procs[p].pc = "returned"
        /\ procs[p].prev.n >= 3
        /\ FeedRows(procs[p].rows0, procs[p].feed) # {}
        /\ FeedRows(rows, procs[p].feed) = {}

\* request p has normalised the VEVENTs of the collection it read
Normalised(p) ==
    \/ procs[p].op = "parse"
    \/ procs[p].i > 0 /\ procs[p].fetchOk

\* the object under name n yields an event in the normalisation of p
Yields(p, n) ==
    /\ procs[p].fetchSrv[n].kind = "vevent"
    /\ procs[p].op = "parse" \/ procs[p].fetchSrv[n].start # NoDate

NameIndex(n) == CHOOSE k \in DOMAIN NameOrder : NameOrder[k] = n

\* the normalised event that stems from the object under name n
EventOf(p, n) ==
    procs[p].events[Cardinality({m \in Names :
        Yields(p, m) /\ NameIndex(m) <= NameIndex(n)})]

\* C15: every normalised VEVENT is classified by RRULE and RECURRENCE-ID,
\* RECURRENCE-ID first: with RECURRENCE-ID an instance (not master, not
\* recurring, masterEventId the UID up to its first underscore,
\* externalEventId that prefix, '_' and the date of the start); with RRULE
\* alone a master (recurring, no masterEventId, externalEventId the UID);
\* with neither a standalone. No event is a master with a masterEventId.
C15_Classification ==
    \A p \in Procs : \A n \in Names :
        (Normalised(p) /\ Yields(p, n)) =>
            LET v == procs[p].fetchSrv[n]
                e == EventOf(p, n)
            IN /\ v.recurid # 0 =>
                     /\ ~e.isMaster /\ ~e.isRecurring
                     /\ e.masterUid = v.uid[1]
                     /\ e.ext = <<v.uid[1], DateStr(e.start)>>
               /\ (v.recurid = 0 /\ v.rule # "") =>
                     /\ e.isMaster /\ e.isRecurring
                     /\ e.masterUid = "" /\ e.ext = v.uid
               /\ (v.recurid = 0 /\ v.rule = "") =>
                     /\ ~e.isMaster /\ ~e.isRecurring
                     /\ e.masterUid = "" /\ e.ext = v.uid
               /\ ~(e.isMaster /\ e.masterUid # "")

\* a sync has normalised a VEVENT that carries both RRULE and RECURRENCE-ID
\* under a UID with an underscore, next to a master
C15_Witness ==
    \E p \in Procs :
        /\ procs[p].op = "sync" /\ Normalised(p)
        /\ Yields(p, "u1") /\ Yields(p, "u2")
        /\ procs[p].fetchSrv["u1"].rule = "R2"
        /\ procs[p].fetchSrv["u1"].recurid # 0
        /\ Len(procs[p].fetchSrv["u1"].uid) = 2
        /\ EventOf(p, "u1").ext = <<"u1", "d1">>
        /\ EventOf(p, "u2").isMaster

\* C16: a VEVENT without DTSTART is dropped by normalisation: the result
\* holds no event that stems from it and none made up in its place, that
\* is, exactly one event per VEVENT that has a DTSTART.
C16_MissingStartDropped ==
    \A p \in Procs :
        Normalised(p) =>
            LET withStart == {n \in Names :
                                /\ procs[p].fetchSrv[n].kind = "vevent"
                                /\ procs[p].fetchSrv[n].start # NoDate}
                noStart   == {n \in Names :
                                /\ procs[p].fetchSrv[n].kind = "vevent"
                                /\ procs[p].fetchSrv[n].start = NoDate}
                plain     == SelectSeq(procs[p].events,
                                LAMBDA e : e.recurringEventId = << >>
                                           \/ e.ext # e.recurringEventId)
            IN /\ Len(plain) = Cardinality(withStart)
               /\ \A k \in DOMAIN procs[p].events :
                     procs[p].events[k].title # "Error parsing event"
               /\ \A n \in noStart : \A k \in DOMAIN procs[p].events :
                     procs[p].events[k].ext # procs[p].fetchSrv[n].uid

\* the WebCal normalisation of a VEVENT without DTSTART, next to a well-formed
\* VEVENT, returned two events, one of them made up and dated now
C16_Witness ==
    \E p \in Procs :
        /\ procs[p].op = "parse"
        /\ procs[p].fetchSrv["u1"].start = NoDate
        /\ procs[p].fetchSrv["u1"].recurid = 0
        /\ procs[p].fetchSrv["u2"].kind = "vevent"
        /\ Len(procs[p].events) = 2
        /\ procs[p].events[1].title = "Error parsing event"
        /\ procs[p].events[1].ext = procs[p].fetchSrv["u1"].uid
        /\ procs[p].events[2].ext = <<"u2">>

\* C17: a recurrence rule is carried by master rows only: every stored row
\* with a recurrenceRule is a master, and every row that is not a master
\* has no recurrenceRule and isRecurring = FALSE.
C17_RuleOnMastersOnly ==
    \A r \in rows :
        /\ r.rule # "" => r.isMaster
        /\ ~r.isMaster => (r.rule = "" /\ ~r.isRecurring)

\* a returned sync stored an expanded occurrence that carries its master's
\* rule and isRecurring = TRUE
C17_Witness ==
    \E p \in Procs :
        /\ procs[p].syncDone /\ procs[p].fetchOk
        /\ \E m \in rows, r \in rows :
              /\ m.isMaster /\ m.rule = "R2"
              /\ r.masterEventId = m.id /\ ~r.isMaster
              /\ r.ext = m.ext /\ r.recurringEventId = m.ext
              /\ r.rule = "R2" /\ r.isRecurring

\* the positions in the events of p of the instances expanded from master m
ExpandedOf(p, m) ==
    {k \in DOMAIN procs[p].events :
        /\ ~procs[p].events[k].isMaster
        /\ procs[p].events[k].recurringEventId = m.ext
        /\ procs[p].events[k].ext = m.ext}

\* the occurrences of the rule of master m, anchored at its start, that lie
\* in the window, both bounds included
OccurrencesInWindow(m) ==
    {d \in m.start .. (m.start + RuleCount(m.rule) - 1) :
        WindowStart <= d /\ d <= WindowEnd}

\* C18: for every master with a parsable rule the fetch holds exactly one
\* expanded instance per occurrence of the rule inside the window (bounds
\* included) and no other; each instance is the master with start = the
\* occurrence, end = start + the master's duration, isMaster = FALSE and
\* recurringEventId = the master's externalEventId. A daily rule of count 5
\* anchored at the window's first day gives 5 instances on 5 days in a row.
C18_ExpansionExact ==
    \A p \in Procs :
        (procs[p].op = "sync" /\ Normalised(p)) =>
            \A j \in DOMAIN procs[p].events :
                LET m == procs[p].events[j]
                IN (m.isMaster /\ RuleParses(m.rule)) =>
                      /\ \A d \in OccurrencesInWindow(m) :
                            Cardinality({k \in ExpandedOf(p, m) :
                                procs[p].events[k].start = d}) = 1
                      /\ \A k \in ExpandedOf(p, m) :
                            /\ procs[p].events[k].start
                                  \in OccurrencesInWindow(m)
                            /\ procs[p].events[k] =
                                 [m EXCEPT
                                    !.start = procs[p].events[k].start,
                                    !.end = procs[p].events[k].start
                                              + (m.end - m.start),
                                    !.isMaster = FALSE,
                                    !.recurringEventId = m.ext]
                      /\ (m.rule = "R5" /\ m.start = WindowStart) =>
                            {procs[p].events[k].start :
                                k \in ExpandedOf(p, m)}
                              = m.start .. (m.start + 4)

\* a fetch holds the five instances of a daily rule of count 5 whose first
\* occurrence is the window's first day and whose last is its last day,
\* each two days long like the master
C18_Witness ==
    \E p \in Procs :
        /\ procs[p].op = "sync" /\ Normalised(p)
        /\ Len(procs[p].events) >= 6
        /\ procs[p].events[1].isMaster /\ procs[p].events[1].rule = "R5"
        /\ procs[p].events[1].start = WindowStart
        /\ procs[p].events[1].end = WindowStart + 2
        /\ Cardinality(ExpandedOf(p, procs[p].events[1])) = 5
        /\ \E k \in ExpandedOf(p, procs[p].events[1]) :
              /\ procs[p].events[k].start = WindowEnd
              /\ procs[p].events[k].end = WindowEnd + 2

\* the object under name n is a master VEVENT (with DTSTART, RRULE and no
\* RECURRENCE-ID) in the collection request p fetched
MasterObject(p, n) ==
    /\ procs[p].fetchSrv[n].kind = "vevent"
    /\ procs[p].fetchSrv[n].start # NoDate
    /\ procs[p].fetchSrv[n].rule # ""
    /\ procs[p].fetchSrv[n].recurid = 0

\* the stored occurrence rows expanded from the master object under name n
OccurrenceRows(p, n) ==
    {r \in FeedRows(rows, procs[p].feed) :
        /\ ~r.isMaster
        /\ r.ext = procs[p].fetchSrv[n].uid
        /\ r.recurringEventId = procs[p].fetchSrv[n].uid}

\* C19: a run that fetched a master whose rule fails to parse still returns;
\* that master's row is stored, no occurrence row exists for it, and every
\* other master of the fetch has its row and all its occurrence rows.
C19_BadRuleContained ==
    \A p \in Procs :
        (/\ procs[p].op = "sync" /\ Normalised(p)
         /\ procs[p].pc \notin SyncPcs
         /\ \E n \in Names : MasterObject(p, n)
                             /\ ~RuleParses(procs[p].fetchSrv[n].rule)) =>
            /\ procs[p].pc = "returned"
            /\ \A n \in Names :
                  MasterObject(p, n) =>
                      /\ \E r \in FeedRows(rows, procs[p].feed) :
                            /\ r.isMaster
                            /\ r.ext = procs[p].fetchSrv[n].uid
                            /\ r.rule = procs[p].fetchSrv[n].rule
                      /\ ~RuleParses(procs[p].fetchSrv[n].rule) =>
                            OccurrenceRows(p, n) = {}
                      /\ RuleParses(procs[p].fetchSrv[n].rule) =>
                            /\ OccurrenceRows(p, n) # {}
                            /\ {r.start : r \in OccurrenceRows(p, n)}
                                 = {d \in procs[p].fetchSrv[n].start
                                           .. procs[p].fetchSrv[n].start
                                    + RuleCount(procs[p].fetchSrv[n].rule) - 1 :
                                      WindowStart <= d /\ d <= WindowEnd}

\* a run over a master with an unparsable rule and a master with a daily
\* rule returned: both master rows and the two occurrences of the second
C19_Witness ==
    \E p \in Procs :
        /\ procs[p].op = "sync" /\ procs[p].pc = "returned" /\ Normalised(p)
        /\ MasterObject(p, "u1") /\ procs[p].fetchSrv["u1"].rule = "BAD"
        /\ MasterObject(p, "u2") /\ procs[p].fetchSrv["u2"].rule = "R2"
        /\ Cardinality(OccurrenceRows(p, "u2")) = 2
        /\ Cardinality(FeedRows(rows, procs[p].feed)) = 4

\* the rows request p has created so far in its run
RowsOfRun(p) ==
    {r \in FeedRows(rows, procs[p].feed) : r.id >= procs[p].startId}

\* event e of the fetch of request p has no master among the masters of that
\* fetch: its recurringEventId is null or names none of them
Orphan(p, e) ==
    /\ ~e.isMaster
    /\ \/ e.recurringEventId = << >>
       \/ ~\E j \in DOMAIN procs[p].events :
              /\ procs[p].events[j].isMaster
              /\ procs[p].events[j].ext = e.recurringEventId

\* request p is at or past the create() of the k-th queued event
Created(p, k) ==
    /\ procs[p].op = "sync" /\ procs[p].fetchOk
    /\ \/ procs[p].pc = "create" /\ k < procs[p].i
       \/ procs[p].pc = "update" /\ procs[p].i > 0
       \/ procs[p].pc = "returned"

C21_SyncTouchesOnlyItsFeed ==
    [][\A p \in Procs :
          (InSync(p) /\ procs'[p] # procs[p]) =>
              LET f == procs[p].feed
              IN /\ \A g \in Feeds \ {f} :
                       /\ feeds'[g] = feeds[g]
                       /\ FeedRows(rows', g) = FeedRows(rows, g)
                 /\ feeds'[f] = [feeds[f] EXCEPT
                                   !.lastSync = feeds'[f].lastSync,
                                   !.syncToken = feeds'[f].syncToken]]_vars

\* a run on the WebCal feed returned while the CalDAV feed held rows, which
\* it still holds
C21_Witness ==
    \E p \in Procs :
        /\ procs[p].op = "sync" /\ procs[p].feed = "w1"
        /\ procs[p].pc = "returned"
        /\ feeds["w1"].lastSync # 0
        /\ FeedRows(procs[p].rows0, "f1") # {}
        /\ FeedRows(rows, "f1") = FeedRows(procs[p].rows0, "f1")

\* the ids of the feeds the call in flight sent a sync request for, in order
Attempted ==
    LET puts == SelectSeq(call.reqs, LAMBDA r : r[1] = "PUT")
    IN [k \in DOMAIN puts |-> puts[k][2]]

\* the ids of the enabled feeds of the list syncAllFeeds started from
EnabledIds ==
    LET on == SelectSeq(call.queue, LAMBDA f : f.enabled)
    IN [k \in DOMAIN on |-> on[k].id]

\* C22: when syncAllFeeds is over, it has sent a sync request for every
\* enabled feed of its list, in list order, and for no disabled feed,
\* whatever failed on the way, and every feed whose sync failed carries the
\* failure message in its error field.
C22_EveryEnabledFeedAttempted ==
    (call.op = "syncAllFeeds" /\ call.pc \in {"returned", "threw"}) =>
        /\ Attempted = EnabledIds
        /\ \A k \in DOMAIN call.failed :
              /\ HasFeed(store.feeds, call.failed[k][1])
              /\ FeedOf(store.feeds, call.failed[k][1]).error
                     = call.failed[k][2]

\* syncAllFeeds is over although an enabled feed of its list was never
\* attempted: the PATCH that records the failure of an earlier feed was
\* refused
C22_Witness ==
    /\ call.op = "syncAllFeeds" /\ call.pc = "threw"
    /\ Len(Attempted) < Len(EnabledIds)
    /\ call.reqs[Len(call.reqs)][1] = "PATCH"
    /\ FeedOf(store.feeds, call.id).error = ""

\* C23: when removeFeed(id) is over: if the id was not in the store, no
\* request was sent and nothing changed; if it returned, the store holds no
\* feed with that id and no event of that feed, and the other feeds and
\* their events are as before; if it threw (the DELETE was refused), feeds
\* and events are as before.
C23_RemoveFeedCascades ==
    (call.op = "removeFeed" /\ call.pc \in {"returned", "threw"}) =>
        IF ~HasFeed(call.feeds0, call.id)
        THEN /\ call.pc = "returned" /\ call.reqs = << >>
             /\ store.feeds = call.feeds0 /\ store.events = call.events0
        ELSE /\ call.reqs = << <<"DELETE", call.id>> >>
             /\ call.pc = "returned" =>
                   /\ ~HasFeed(store.feeds, call.id)
                   /\ \A e \in store.events : e.feedId # call.id
                   /\ store.feeds
                        = SelectSeq(call.feeds0, LAMBDA f : f.id # call.id)
                   /\ store.events
                        = {e \in call.events0 : e.feedId # call.id}
             /\ call.pc = "threw" =>
                   /\ store.feeds = call.feeds0
                   /\ store.events = call.events0

\* removeFeed of the CalDAV feed returned: its four events left the store
\* and the event of the other feed stayed
C23_Witness ==
    /\ call.op = "removeFeed" /\ call.pc = "returned" /\ call.id = "f1"
    /\ Cardinality({e \in call.events0 : e.feedId = "f1"}) = 4
    /\ store.events # {}
    /\ \A e \in store.events : e.feedId = "g1"
    /\ Len(store.feeds) = 2

\* the stored events among the items the call returned
StoredItems == {e \in call.items : e.feedId # "tasks"}

\* C29: getAllCalendarItems(start, end) returns no stored event that is a
\* recurring master: of the stored events it returns exactly those that are
\* not recurring masters and overlap [start, end], so a series shows through
\* its non-master rows only and a master without instance rows shows nothing.
C29_MastersNeverShown ==
    (call.op = "getAllCalendarItems" /\ call.pc = "returned") =>
        /\ \A e \in call.items : ~(e.isMaster /\ e.isRecurring)
        /\ StoredItems
             = {e \in call.events0 :
                  /\ ~(e.isMaster /\ e.isRecurring)
                  /\ e.start <= call.to /\ e.end >= call.from}
        /\ \A m \in call.events0 :
              (m.isMaster /\ m.isRecurring) =>
                  \A e \in StoredItems :
                      e.feedId = m.feedId /\ e.ext = m.ext =>
                          /\ e.id # m.id
                          /\ e.masterEventId = m.id

\* the view asked for the day on which both stored masters start: it got
\* the instance of the first series on that day, and nothing of the second
\* series, which has no instance rows
C29_Witness ==
    /\ call.op = "getAllCalendarItems" /\ call.pc = "returned"
    /\ call.from = 2 /\ call.to = 2
    /\ \E m \in call.events0 :
          m.feedId = "g1" /\ m.isMaster /\ m.isRecurring /\ m.start = 2
    /\ \E e \in call.items : e.feedId = "f1" /\ e.masterEventId # 0
    /\ ~\E e \in call.items : e.feedId = "g1"

\* the rows of the series of row e: its master and the master's instances
SeriesOf(rs, e) ==
    LET m == IF e.isMaster \/ e.masterEventId = 0 THEN e.id
             ELSE e.masterEventId
    IN {r \in rs : r.id = m \/ r.masterEventId = m}

\* C26: when deleteCalendarEvent(id, mode) is over: for an id that matches
\* no row it threw and deleted nothing; with mode series on an instance with
\* a masterEventId the master row and all its instances are gone; with mode
\* series on a master or a row without masterEventId that row is gone; with
\* mode single exactly the row with that id is gone and no other; rows of
\* other series are untouched in every case.
C26_DeleteByMode ==
    \A p \in Procs :
        (procs[p].op = "deleteCalendarEvent"
            /\ procs[p].pc \in {"returned", "threw"}) =>
            LET me == procs[p]
                e  == me.ev
            IN IF e = NoRow
               THEN me.pc = "threw" /\ rows = me.rows0
               ELSE /\ me.pc = "returned"
                    /\ me.rows0 \ SeriesOf(me.rows0, e) \subseteq rows
                    /\ rows \subseteq me.rows0
                    /\ e \notin rows
                    /\ (me.mode = "series" /\ ~e.isMaster
                           /\ e.masterEventId # 0) =>
                          rows = me.rows0 \ SeriesOf(me.rows0, e)
                    /\ me.mode = "single" => rows = me.rows0 \ {e}

\* deleteCalendarEvent(id, 'single') on a master row returned, and the
\* instance rows of that master are gone with it
C26_Witness ==
    \E p \in Procs :
        /\ procs[p].op = "deleteCalendarEvent" /\ procs[p].pc = "returned"
        /\ procs[p].mode = "single" /\ procs[p].ev.isMaster
        /\ Cardinality(SeriesOf(procs[p].rows0, procs[p].ev)) = 3
        /\ rows = procs[p].rows0 \ SeriesOf(procs[p].rows0, procs[p].ev)
        /\ rows # {}

\* C24: an add request (authenticated, with a URL) whose GET was answered
\* with a Content-Type that does not start with text/calendar ends with
\* status 404 and 'WebCal not found', and no feed row and no event row was
\* created; a GET that failed in transport ends with status 500 instead.
C24_WrongContentTypeIs404 ==
    (route.pc = "done" /\ route.authed /\ route.url # "") =>
        /\ (route.answer \in ContentTypes
               /\ (route.answer = << >> \/ Head(route.answer) # "text/calendar")) =>
              /\ route.status = 404 /\ route.error = "WebCal not found"
              /\ feeds = route.feeds0 /\ rows = route.rows0
              /\ ~route.created
        /\ route.answer = TransportFailure =>
              /\ route.status = 500 /\ route.error # "WebCal not found"
              /\ feeds = route.feeds0 /\ rows = route.rows0
        /\ route.status = 404 => route.answer # TransportFailure

\* the URL answered with application/json and the request ended with 404
C24_Witness ==
    /\ route.pc = "done" /\ route.answer = <<"application/json">>
    /\ route.status = 404 /\ feeds = route.feeds0

\* C27: once the add route has created the feed row, it answers success
\* with the new feed's id whether or not the initial sync threw, and the row
\* stays; the row's lastSync is rewritten after the sync only when the sync
\* did not throw, and otherwise is still the time of creation.
C27_SyncFailureStillSuccess ==
    (route.pc = "done" /\ route.created) =>
        /\ route.status = 200 /\ route.error = ""
        /\ route.webCal = route.newId
        /\ route.newId \in DOMAIN feeds
        /\ route.newId \notin DOMAIN route.feeds0
        /\ route.syncThrew =>
              feeds[route.newId].lastSync = route.createdAt
        /\ ~route.syncThrew =>
              feeds[route.newId].lastSync > route.createdAt

\* the feed row was created, the initial sync threw, and the answer is
\* success with the id of the row, whose lastSync is that of its creation
C27_Witness ==
    /\ route.pc = "done" /\ route.created /\ route.syncThrew
    /\ route.status = 200 /\ route.webCal = route.newId
    /\ feeds[route.newId].lastSync = route.createdAt

\* no two events of the list carry the same externalEventId
DistinctIds(events) ==
    \A j, k \in DOMAIN events : j # k => events[j].ext # events[k].ext

\* C25: the list processCalendarObjects (and processWebcalData) returns for
\* a fetched collection never holds two events with the same
\* externalEventId, also when two objects of the collection carry the same
\* UID.
C25_NoDuplicateIds ==
    \A p \in Procs :
        /\ (procs[p].op = "sync" /\ Normalised(p)) =>
              DistinctIds(processCalendarObjects(procs[p].fetchSrv))
        /\ procs[p].op = "parse" => DistinctIds(procs[p].events)

\* a run fetched two objects with the same UID, neither with RRULE or
\* RECURRENCE-ID, and both came out of processCalendarObjects and were
\* stored under the same externalEventId
C25_Witness ==
    \E p \in Procs :
        /\ procs[p].op = "sync" /\ procs[p].pc = "returned" /\ Normalised(p)
        /\ procs[p].fetchSrv["u1"].kind = "vevent"
        /\ procs[p].fetchSrv["u2"].kind = "vevent"
        /\ procs[p].fetchSrv["u1"].uid = procs[p].fetchSrv["u2"].uid
        /\ Len(processCalendarObjects(procs[p].fetchSrv)) = 2
        /\ ~DistinctIds(processCalendarObjects(procs[p].fetchSrv))
        /\ Cardinality({r \in FeedRows(rows, procs[p].feed) :
                           r.ext = <<"u1">>}) = 2

\* the pathname of the request starts with one of the admin-only prefixes
OnAdminRoute == \E r \in adminRoutes : StartsWith(mw.path, r)

\* the pathname is public or belongs to the API
PublicOrApi ==
    \/ \E r \in publicRoutes : StartsWith(mw.path, r)
    \/ StartsWith(mw.path, <<"/api">>)

\* C28: a request under /admin, /logs or /settings/system continues only
\* with an admin token; without a token it is redirected to /auth/signin
\* with a callbackUrl, with another token to /. Any other path that is
\* neither public nor of the API continues only with a token.
C28_AdminRoutesAdminOnly ==
    mw.pc = "done" =>
        /\ OnAdminRoute =>
              /\ mw.res.kind = "next" => mw.token = "admin"
              /\ mw.token = "none" =>
                    mw.res = Redirect(<<"/auth", "/signin">>, mw.path)
              /\ mw.token = "user" => mw.res = Redirect(<<"/">>, << >>)
        /\ (~OnAdminRoute /\ ~PublicOrApi) =>
              (mw.res.kind = "next" => mw.token # "none")

\* a request for a path under /admin that ends in .png went through without
\* a token
C28_Witness ==
    /\ mw.pc = "done"
    /\ mw.path = <<"/admin", "/users", "/a", ".png">>
    /\ mw.token = "none"
    /\ mw.res.kind = "next"

\* the external id createEvent or updateEvent of p looks for in the added
\* list of its sync
WrittenId(p) ==
    IF procs[p].op = "create" THEN << procs[p].inp.id >> ELSE procs[p].ext

\* the positions of the added list of p's sync that carry the written id
Matches(p) ==
    {k \in 1..Len(procs[p].added) : procs[p].added[k].ext = WrittenId(p)}

\* the object the accepted direct write of p has put is still on the server
WriteStands(p) ==
    LET now == server[TargetName(procs[p])]
    IN /\ now.kind = "vevent"
       /\ now.uid = WrittenId(p)
       /\ now.title = procs[p].inp.title
       /\ now.start = procs[p].inp.start
       /\ now.end = procs[p].inp.end

C30_ThrownAfterWrite ==
    \E p \in Procs :
        /\ procs[p].op = "create" /\ procs[p].pc = "threw"
        /\ procs[p].syncDone /\ WriteAccepted(p)
        /\ procs[p].snap[procs[p].inp.id].kind = "none"
        /\ server[procs[p].inp.id].kind = "vevent"

====
